---- MODULE Spec2Model ----
(***************************************************************************)
(* Section tracking of the Terraform log parser.                           *)
(*                                                                         *)
(*   parse_log_file                (src/parser/terraform_log_cli.py)       *)
(*   detect_sections_and_augment   (src/parser/hah.py)                     *)
(*                                                                         *)
(* Both functions walk the records of one JSONL stream in file order and   *)
(* keep a table of sections and a dictionary of the sections that are      *)
(* open.  One step of the model is one iteration of the record loop; the   *)
(* last step is the end-of-stream sweep.                                   *)
(*                                                                         *)
(* Spec and SpecWords start at the record loop and draw each record as the *)
(* loop reaches it.  SpecTs starts at the payloads: parse_entry_from_dict  *)
(* and _normalize_timestamp make the records, the loop then walks them,    *)
(* and parse_log_file is called again in the same process.  SpecTypes      *)
(* gives both functions a tf_req_id of any JSON type.                      *)
(*                                                                         *)
(* Python indices are kept as they are (0-based); a Python list is a TLA+  *)
(* sequence, so list element i is seq[i + 1].                              *)
(***************************************************************************)
EXTENDS Integers, Sequences, FiniteSets, TLC

\* Longest stream that is explored with the messages of Messages.
MaxLen == 4
\* Longest stream that is explored with the messages of AllMessages.
MaxLenWords == 3

\* Python None in a string-valued field (tf_req_id, section_type, ...).
None == "None"
\* Python None in end_index, and a key that last_seen_index does not have.
NoIdx == -1
\* Python None in end_ts.
NoTs == 0
\* A record that has no section_id key.
NoSec == 0

---------------------------------------------------------------------------
(* The input.  A record of the stream is a JSON object; the tracker reads  *)
(* its tf_req_id and the text of its message.  The messages are concrete   *)
(* log lines; what the regular expressions of the source make of each is   *)
(* tabulated below.                                                        *)

MsgUnrelated     == "unrelated"
MsgPlanStart     == "CLI args: terraform plan"
MsgApplyStart    == "CLI args: terraform apply"
MsgPlanEnd       == "Plan: 3 to add, 0 to change, 0 to destroy"
MsgApplyEnd      == "Apply complete! Resources: 3 added"
MsgPlanStartEnd  == "terraform plan: Plan: 1 to add, 0 to change, 0 to destroy"
MsgApplyStartEnd == "terraform apply: Apply complete!"
MsgBothStart     == "CLI args: terraform apply plan.out"
MsgBothWords     == "applying the plan"
MsgNoChanges     == "No changes. Infrastructure is up-to-date."
MsgBothEnd       == "Apply complete! (Plan: 1 to add)"

\* The messages parse_log_file is given in the main specification: no
\* pattern, a start or an end of either type, a start and an end at once.
Messages ==
    { MsgUnrelated, MsgPlanStart, MsgApplyStart, MsgPlanEnd, MsgApplyEnd,
      MsgApplyStartEnd }

\* The messages detect_sections_and_augment is given: its word tests tell
\* no other message of this model apart from one of these.
HahMessages ==
    { MsgUnrelated, MsgPlanStart, MsgApplyStart, MsgPlanEnd, MsgApplyEnd }

\* Every message of the model: those above, a plan start that is a plan end
\* as well, and those that carry both keywords or neither.
AllMessages ==
    Messages \cup { MsgPlanStartEnd, MsgBothStart, MsgBothWords, MsgNoChanges,
                    MsgBothEnd }

\* The request identifiers that occur in a stream.
TfIds == { "a", "b" }

\* Values of the key tf_req_id that are not strings: a number, the number
\* zero, a list and an object, each written as the text of its JSON value.
TfNumber == "7"
TfZero   == "0"
TfList   == "[1]"
TfObject == "{k: 1}"

\* A tf_req_id that is a string with the prefix of the keys of anonymous
\* sections; no section of the model gets an id as high as 9.
TfAnonLike == "_anon_9"

\* isinstance(v, str)
IsStr(v) == v \notin { None, TfNumber, TfZero, TfList, TfObject }

\* bool(v)
Truthy(v) == v \notin { None, "", TfZero }

\* hash(v) does not raise: v can be a key of a dictionary
Hashable(v) == v \notin { TfList, TfObject }

\* The values that become keys of open_by_id and last_seen_index.
TfKeys == TfIds \cup { TfNumber, TfAnonLike }


\* any(pat.search(text) for pat in _START_PATTERNS)
MatchesStartPattern(text) ==
    text \in { MsgPlanStart, MsgApplyStart, MsgPlanStartEnd, MsgApplyStartEnd,
               MsgBothStart }

\* any(pat.search(text) for pat in _END_PATTERNS)
MatchesEndPattern(text) ==
    text \in { MsgPlanEnd, MsgApplyEnd, MsgPlanStartEnd, MsgApplyStartEnd,
               MsgNoChanges, MsgBothEnd }

\* 'apply' in text.lower()
ContainsApply(text) ==
    text \in { MsgApplyStart, MsgApplyEnd, MsgApplyStartEnd, MsgBothStart,
               MsgBothWords, MsgBothEnd }

\* 'plan' in text.lower()
ContainsPlan(text) ==
    text \in { MsgPlanStart, MsgPlanEnd, MsgPlanStartEnd, MsgBothStart,
               MsgBothWords, MsgBothEnd }

\* 'to add' in text.lower()
ContainsToAdd(text) ==
    text \in { MsgPlanEnd, MsgPlanStartEnd, MsgBothEnd }

\* The tie-break the other way round: "plan" before "apply".
_detect_section_start_type_PlanFirst(text) ==
    IF ~MatchesStartPattern(text) THEN None
    ELSE IF ContainsPlan(text) THEN "plan"
    ELSE IF ContainsApply(text) THEN "apply"
    ELSE "plan"

\* _detect_section_start_type: the first start pattern that matches decides
\* that a section starts; its type is read off the words of the text.  (The
\* fall-back on the words of the pattern is never reached: every start
\* pattern requires "plan" or "apply" in the text.)
_detect_section_start_type(text) ==
    IF ~MatchesStartPattern(text) THEN None
    ELSE IF ContainsApply(text) THEN "apply"
    ELSE IF ContainsPlan(text) THEN "plan"
    ELSE "plan"

\* _detect_section_end
_detect_section_end(text) ==
    IF ~MatchesEndPattern(text) THEN None
    ELSE IF ContainsApply(text) THEN "apply"
    ELSE IF ContainsPlan(text) \/ ContainsToAdd(text) THEN "plan"
    ELSE "plan"

\* a or b, for values of which only None is falsy
PyOr(a, b) == IF a # None THEN a ELSE b

\* The normalized timestamp of the record at index idx.  The tracker only
\* copies timestamps; every record has its own.
TimestampOf(idx) == idx + 1

---------------------------------------------------------------------------
(* Timestamps.  parse_entry_from_dict takes the raw timestamp from the     *)
(* first usable timestamp key of the payload, else from the text of the    *)
(* message; _normalize_timestamp turns it into an ISO string and keeps the *)
(* last string it returned in its function attribute _last.  The raw       *)
(* values are concrete strings; what the source makes of each is tabulated.*)

\* MAX_TS.isoformat(), the far-future marker
MaxTsMarker == "8999-12-31T23:59:59.999999"

RawIso   == "2024-01-01T10:00:00"
RawComma == "2024-01-01 10:00:01,5"
RawAlt   == "2024/01/02 03:04:05"
RawBad   == "not a time"
RawBlank == "   "

\* Messages without start or end pattern that carry a timestamp in their text.
MsgWithIsoTs == "started at 2024-01-01T10:00:00"
MsgWithAltTs == "started at 2024/01/02 03:04:05"

TIMESTAMP_KEYS == << "@timestamp", "timestamp", "time", "ts", "date" >>

\* k in d and isinstance(d[k], str) and d[k].strip()
UsableStr(d, k) == k \in DOMAIN d /\ IsStr(d[k]) /\ d[k] \notin { "", RawBlank }

\* The first loop of _extract_from_dict: the value of the first usable key.
RECURSIVE FirstUsable(_, _)
FirstUsable(d, keys) ==
    IF keys = << >> THEN None
    ELSE IF UsableStr(d, Head(keys)) THEN d[Head(keys)]
    ELSE FirstUsable(d, Tail(keys))

\* _find_ts_in_text: the first match of ISO_TS_RE, else of ALT_TS_RE
_find_ts_in_text(s) ==
    IF s = MsgWithIsoTs THEN RawIso
    ELSE IF s = MsgWithAltTs THEN RawAlt
    ELSE None

\* datetime.fromisoformat of ts with "," replaced by "." and the first space
\* by "T", as an ISO string; None when it raises.
FromIsoFormat(ts) ==
    IF ts = RawIso THEN "2024-01-01T10:00:00"
    ELSE IF ts = RawComma THEN "2024-01-01T10:00:01.500000"
    ELSE None

\* The fallback: ALT_TS_RE and strptime "%Y/%m/%d %H:%M:%S"; None when
\* there is no match or strptime raises.
FromAltFormat(ts) == IF ts = RawAlt THEN "2024-01-02T03:04:05" ELSE None

\* Steps 2 and 4: the previous value if there is one, else the marker,
\* which then becomes the previous value.
PreviousOrMarker(last) ==
    IF last # None THEN [ ts |-> last, last |-> last ]
    ELSE [ ts |-> MaxTsMarker, last |-> MaxTsMarker ]

\* _normalize_timestamp that gives the marker whenever the parse fails.
_normalize_timestamp_NoCarry(ts, last) ==
    LET iso == PyOr(FromIsoFormat(ts), FromAltFormat(ts))
    IN  IF ts \in { None, "", RawBlank } \/ iso = None
        THEN [ ts |-> MaxTsMarker, last |-> MaxTsMarker ]
        ELSE [ ts |-> iso, last |-> iso ]

\* _normalize_timestamp that returns None when there is nothing to return.
_normalize_timestamp_NoMarker(ts, last) ==
    LET iso == PyOr(FromIsoFormat(ts), FromAltFormat(ts))
    IN  IF ts \in { None, "", RawBlank } \/ iso = None
        THEN [ ts |-> last, last |-> last ]
        ELSE [ ts |-> iso, last |-> iso ]

\* _normalize_timestamp(ts), with _last = last when it is called: the
\* string it returns and the value it leaves in _last.
_normalize_timestamp(ts, last) ==
    LET iso == PyOr(FromIsoFormat(ts), FromAltFormat(ts))
    IN  IF ts \in { None, "", RawBlank } THEN PreviousOrMarker(last)
        ELSE IF iso # None THEN [ ts |-> iso, last |-> iso ]
        ELSE PreviousOrMarker(last)

\* parse_entry_from_dict that looks for a timestamp in the message first.
parse_entry_from_dict_MessageFirst(d, last) ==
    LET ts_key == FirstUsable(d, TIMESTAMP_KEYS)
        msg    == d["@message"]
        ts_raw == PyOr(_find_ts_in_text(msg), ts_key)
        norm   == _normalize_timestamp(ts_raw, last)
    IN  [ entry |-> [ timestamp |-> norm.ts, message |-> msg, json |-> d ],
          last  |-> norm.last ]

\* parse_entry_from_dict(d), with _last = last when it is called: the keys
\* of the record the model keeps, and the value left in _last.
parse_entry_from_dict(d, last) ==
    LET ts_key == FirstUsable(d, TIMESTAMP_KEYS)
        msg    == d["@message"]
        ts_raw == IF ts_key = None THEN _find_ts_in_text(msg) ELSE ts_key
        norm   == _normalize_timestamp(ts_raw, last)
    IN  [ entry |-> [ timestamp |-> norm.ts, message |-> msg, json |-> d ],
          last  |-> norm.last ]

---------------------------------------------------------------------------
VARIABLES
    fn,               \* the function that is running
    pc,               \* "parse": reading the payloads; "loop": in the record
                      \* loop; "done": returned; "raised": left by an exception
    entries,          \* the records the loop has reached, with their annotations
    sections,         \* the section table
    open_by_id,       \* the open sections: an insertion-ordered dictionary
    last_seen_index,  \* hah.py only: tf_req_id -> index of its last record
    _last,            \* _normalize_timestamp._last; None until the first call
    call,             \* the number of the call of fn in this process, from 1
    payloads,         \* the payloads read_jsonl has yielded in this call
    parsed_entries,   \* what parse_entry_from_dict made of them, in order
    current_section   \* process_logs only: its local current_section

vars == << fn, pc, entries, sections, open_by_id, last_seen_index,
           _last, call, payloads, parsed_entries, current_section >>

\* What the tracking loop leaves alone.
parse_vars == << _last, call, payloads, parsed_entries, current_section >>

\* j.get("tf_req_id")
PayloadTfId(d) == IF "tf_req_id" \in DOMAIN d THEN d["tf_req_id"] ELSE None

\* The record of parsed_entries the loop works on, as the model keeps it.
EntryOf(p) ==
    [ tf_req_id     |-> PayloadTfId(p.json),
      message       |-> p.message,
      timestamp     |-> p.timestamp,
      section_id    |-> NoSec,
      section_type  |-> None,
      section_event |-> None ]

\* A record as parse_entry_from_dict returns it (no section keys yet).
NewEntry(idx, tfid, msg) ==
    [ tf_req_id     |-> tfid,
      message       |-> msg,
      timestamp     |-> TimestampOf(idx),
      section_id    |-> NoSec,
      section_type  |-> None,
      section_event |-> None ]

\* ---- the dictionary of open sections: a sequence of (key, section id) ----
Keys(open) == [ i \in 1..Len(open) |-> open[i].key ]

HasKey(open, k) == \E i \in 1..Len(open) : open[i].key = k

\* open[k]["id"]
SecOf(open, k) == open[CHOOSE i \in 1..Len(open) : open[i].key = k].sec

\* open.pop(k, None)
Pop(open, k) == SelectSeq(open, LAMBDA p : p.key # k)

\* open[k] = sec, for a key that is not in the dictionary
Put(open, k, sid) == Append(open, [ key |-> k, sec |-> sid ])

\* f"_anon_{sec_id}"
AnonKey(sec_id) == "_anon_" \o ToString(sec_id)

\* k.startswith("_anon_"), for the keys of the model
IsAnonKey(k) == \E n \in 1..9 : k = AnonKey(n)

\* entry["section_id"], entry["section_type"], entry["section_event"] = ...
Annotate(es, idx, sec, event) ==
    [ es EXCEPT ![idx + 1].section_id    = sec.id,
                ![idx + 1].section_type  = sec.type,
                ![idx + 1].section_event = event ]

---------------------------------------------------------------------------
(* parse_log_file.  The helpers work on st = [entries, sections, open]:    *)
(* the three structures one iteration of the loop reads and writes.        *)

\* _close_section_by_id that leaves the section in the dictionary.
_close_section_by_id_NoPop(st, tfid, close_at_idx) ==
    IF ~HasKey(st.open, tfid) THEN st
    ELSE
      LET sid == SecOf(st.open, tfid)
          sec == st.sections[sid]
      IN  [ open     |-> st.open,
            sections |-> [ st.sections EXCEPT
                             ![sid].end_index = close_at_idx,
                             ![sid].end_ts = st.entries[close_at_idx + 1].timestamp ],
            entries  |-> Annotate(st.entries, close_at_idx, sec, "end") ]

\* _close_section_by_id with the start timestamp as end_ts.
_close_section_by_id_StartTs(st, tfid, close_at_idx) ==
    IF ~HasKey(st.open, tfid) THEN st
    ELSE
      LET sid == SecOf(st.open, tfid)
          sec == st.sections[sid]
      IN  [ open     |-> Pop(st.open, tfid),
            sections |-> [ st.sections EXCEPT ![sid].end_index = close_at_idx,
                                              ![sid].end_ts = sec.start_ts ],
            entries  |-> Annotate(st.entries, close_at_idx, sec, "end") ]

\* _close_section_by_id that does not mark the record at close_at_idx.
_close_section_by_id_NoMark(st, tfid, close_at_idx) ==
    IF ~HasKey(st.open, tfid) THEN st
    ELSE
      LET sid == SecOf(st.open, tfid)
          sec == st.sections[sid]
          end_ts == IF 0 <= close_at_idx /\ close_at_idx < Len(st.entries)
                    THEN st.entries[close_at_idx + 1].timestamp
                    ELSE sec.start_ts
      IN  [ open     |-> Pop(st.open, tfid),
            sections |-> [ st.sections EXCEPT ![sid].end_index = close_at_idx,
                                              ![sid].end_ts = end_ts ],
            entries  |-> st.entries ]

\* _close_section_by_id(tfid, close_at_idx)
_close_section_by_id(st, tfid, close_at_idx) ==
    IF ~HasKey(st.open, tfid) THEN st
    ELSE
      LET sid == SecOf(st.open, tfid)
          sec == st.sections[sid]
          end_ts == IF 0 <= close_at_idx /\ close_at_idx < Len(st.entries)
                    THEN st.entries[close_at_idx + 1].timestamp
                    ELSE sec.start_ts
      IN  [ open     |-> Pop(st.open, tfid),
            sections |-> [ st.sections EXCEPT ![sid].end_index = close_at_idx,
                                              ![sid].end_ts = end_ts ],
            entries  |-> Annotate(st.entries, close_at_idx, sec, "end") ]

\* for k in keys: _close_section_by_id(k, close_idx)
RECURSIVE CloseEach(_, _, _)
CloseEach(st, keys, close_idx) ==
    IF keys = << >> THEN st
    ELSE CloseEach(_close_section_by_id(st, Head(keys), close_idx),
                   Tail(keys), close_idx)

\* CloseIdx with the close at the index of the arriving record.
CloseIdx_Current(idx) == idx

\* CloseIdx one record too early.
CloseIdx_TwoBack(idx) == IF idx - 2 >= 0 THEN idx - 2 ELSE 0

\* close_idx = idx - 1 if idx - 1 >= 0 else 0
CloseIdx(idx) == IF idx - 1 >= 0 THEN idx - 1 ELSE 0

\* OpenSection that numbers the section by the count of open sections.
OpenSection_IdByOpen(st, idx, key, stype, tfid) ==
    LET sec_id == Len(st.open) + 1
        sec == [ id          |-> sec_id,
                 type        |-> stype,
                 tf_req_id   |-> tfid,
                 start_index |-> idx,
                 start_ts    |-> st.entries[idx + 1].timestamp,
                 end_index   |-> NoIdx,
                 end_ts      |-> NoTs,
                 entries     |-> 1 ]
    IN  [ open     |-> Put(st.open, key, Len(st.sections) + 1),
          sections |-> Append(st.sections, sec),
          entries  |-> Annotate(st.entries, idx, sec, "start") ]

\* OpenSection that does not count the opening record.
OpenSection_CountZero(st, idx, key, stype, tfid) ==
    LET sec_id == Len(st.sections) + 1
        sec == [ id          |-> sec_id,
                 type        |-> stype,
                 tf_req_id   |-> tfid,
                 start_index |-> idx,
                 start_ts    |-> st.entries[idx + 1].timestamp,
                 end_index   |-> NoIdx,
                 end_ts      |-> NoTs,
                 entries     |-> 0 ]
    IN  [ open     |-> Put(st.open, key, sec_id),
          sections |-> Append(st.sections, sec),
          entries  |-> Annotate(st.entries, idx, sec, "start") ]

\* A new section is appended to the table, registered as open under key and
\* the record at idx is marked as its start.
OpenSection(st, idx, key, stype, tfid) ==
    LET sec_id == Len(st.sections) + 1
        sec == [ id          |-> sec_id,
                 type        |-> stype,
                 tf_req_id   |-> tfid,
                 start_index |-> idx,
                 start_ts    |-> st.entries[idx + 1].timestamp,
                 end_index   |-> NoIdx,
                 end_ts      |-> NoTs,
                 entries     |-> 1 ]
    IN  [ open     |-> Put(st.open, key, sec_id),
          sections |-> Append(st.sections, sec),
          entries  |-> Annotate(st.entries, idx, sec, "start") ]

\* AttachInside that does not count the record.
AttachInside_NoCount(st, idx, key) ==
    [ st EXCEPT !.entries =
        Annotate(st.entries, idx, st.sections[SecOf(st.open, key)], "inside") ]

\* AttachInside that counts the record and writes nothing on it.
AttachInside_NoAnnotate(st, idx, key) ==
    [ st EXCEPT !.sections[SecOf(st.open, key)].entries = @ + 1 ]

\* The record at idx is attached to the open section under key.
AttachInside(st, idx, key) ==
    LET sid == SecOf(st.open, key)
    IN  [ open     |-> st.open,
          sections |-> [ st.sections EXCEPT ![sid].entries = @ + 1 ],
          entries  |-> Annotate(st.entries, idx, st.sections[sid], "inside") ]

\* TrackWithId without the end-pattern check on the record itself.
TrackWithId_NoEndCheck(st, idx, tfid, text_blob) ==
    LET other_ids == SelectSeq(Keys(st.open), LAMBDA k : k # tfid)
        st1 == CloseEach(st, other_ids, CloseIdx(idx))
        stype == PyOr(_detect_section_start_type(text_blob),
                      PyOr(_detect_section_end(text_blob), "plan"))
    IN  IF ~HasKey(st1.open, tfid)
        THEN OpenSection(st1, idx, tfid, stype, tfid)
        ELSE AttachInside(st1, idx, tfid)

\* TrackWithId that opens a section for every record, open or not.
TrackWithId_AlwaysOpen(st, idx, tfid, text_blob) ==
    LET other_ids == SelectSeq(Keys(st.open), LAMBDA k : k # tfid)
        st1 == CloseEach(st, other_ids, CloseIdx(idx))
        stype == PyOr(_detect_section_start_type(text_blob),
                      PyOr(_detect_section_end(text_blob), "plan"))
        st2 == OpenSection([ st1 EXCEPT !.open = Pop(st1.open, tfid) ],
                           idx, tfid, stype, tfid)
        end_type == _detect_section_end(text_blob)
    IN  IF /\ end_type # None
           /\ st2.sections[SecOf(st2.open, tfid)].type = end_type
        THEN _close_section_by_id(st2, tfid, idx)
        ELSE st2

\* TrackWithId that lets an end pattern of either type close the section.
TrackWithId_AnyEndType(st, idx, tfid, text_blob) ==
    LET other_ids == SelectSeq(Keys(st.open), LAMBDA k : k # tfid)
        st1 == CloseEach(st, other_ids, CloseIdx(idx))
        stype == PyOr(_detect_section_start_type(text_blob),
                      PyOr(_detect_section_end(text_blob), "plan"))
        st2 == IF ~HasKey(st1.open, tfid)
               THEN OpenSection(st1, idx, tfid, stype, tfid)
               ELSE AttachInside(st1, idx, tfid)
    IN  IF _detect_section_end(text_blob) # None
        THEN _close_section_by_id(st2, tfid, idx)
        ELSE st2

\* TrackWithId that puts the last closed section of tfid back into the
\* dictionary instead of opening a new one.
TrackWithId_Reopen(st, idx, tfid, text_blob) ==
    LET other_ids == SelectSeq(Keys(st.open), LAMBDA k : k # tfid)
        st1 == CloseEach(st, other_ids, CloseIdx(idx))
        stype == PyOr(_detect_section_start_type(text_blob),
                      PyOr(_detect_section_end(text_blob), "plan"))
        prior == { k \in 1..Len(st1.sections) : st1.sections[k].tf_req_id = tfid }
        sid == CHOOSE k \in prior : \A j \in prior : j <= k
        st2 == IF HasKey(st1.open, tfid) THEN AttachInside(st1, idx, tfid)
               ELSE IF prior = { } THEN OpenSection(st1, idx, tfid, stype, tfid)
               ELSE AttachInside(
                      [ st1 EXCEPT !.open = Put(st1.open, tfid, sid),
                                   !.sections[sid].end_index = NoIdx,
                                   !.sections[sid].end_ts = NoTs ],
                      idx, tfid)
        end_type == _detect_section_end(text_blob)
    IN  IF /\ end_type # None
           /\ HasKey(st2.open, tfid)
           /\ st2.sections[SecOf(st2.open, tfid)].type = end_type
        THEN _close_section_by_id(st2, tfid, idx)
        ELSE st2

\* TrackWithId with apply as the type of a section whose opening message
\* matches no pattern.
TrackWithId_DefaultApply(st, idx, tfid, text_blob) ==
    LET other_ids == SelectSeq(Keys(st.open), LAMBDA k : k # tfid)
        st1 == CloseEach(st, other_ids, CloseIdx(idx))
        stype == PyOr(_detect_section_start_type(text_blob),
                      PyOr(_detect_section_end(text_blob), "apply"))
        st2 == IF ~HasKey(st1.open, tfid)
               THEN OpenSection(st1, idx, tfid, stype, tfid)
               ELSE AttachInside(st1, idx, tfid)
        end_type == _detect_section_end(text_blob)
    IN  IF /\ end_type # None
           /\ HasKey(st2.open, tfid)
           /\ st2.sections[SecOf(st2.open, tfid)].type = end_type
        THEN _close_section_by_id(st2, tfid, idx)
        ELSE st2

\* TrackWithId that leaves the sections of other identifiers open.
TrackWithId_KeepOthers(st, idx, tfid, text_blob) ==
    LET stype == PyOr(_detect_section_start_type(text_blob),
                      PyOr(_detect_section_end(text_blob), "plan"))
        st2 == IF ~HasKey(st.open, tfid)
               THEN OpenSection(st, idx, tfid, stype, tfid)
               ELSE AttachInside(st, idx, tfid)
        end_type == _detect_section_end(text_blob)
    IN  IF /\ end_type # None
           /\ HasKey(st2.open, tfid)
           /\ st2.sections[SecOf(st2.open, tfid)].type = end_type
        THEN _close_section_by_id(st2, tfid, idx)
        ELSE st2

\* The branch "if tfid:" of the loop body.
TrackWithId(st, idx, tfid, text_blob) ==
    LET other_ids == SelectSeq(Keys(st.open), LAMBDA k : k # tfid)
        st1 == CloseEach(st, other_ids, CloseIdx(idx))
        stype == PyOr(_detect_section_start_type(text_blob),
                      PyOr(_detect_section_end(text_blob), "plan"))
        st2 == IF ~HasKey(st1.open, tfid)
               THEN OpenSection(st1, idx, tfid, stype, tfid)
               ELSE AttachInside(st1, idx, tfid)
        end_type == _detect_section_end(text_blob)
    IN  IF /\ end_type # None
           /\ HasKey(st2.open, tfid)
           /\ st2.sections[SecOf(st2.open, tfid)].type = end_type
        THEN _close_section_by_id(st2, tfid, idx)
        ELSE st2

\* TrackWithoutId that leaves the open sections open.
TrackWithoutId_KeepOpen(st, idx, text_blob) ==
    LET start_type == _detect_section_start_type(text_blob)
        anon_keys == SelectSeq(Keys(st.open), IsAnonKey)
    IN  IF start_type # None
        THEN OpenSection(st, idx, AnonKey(Len(st.sections) + 1), start_type, None)
        ELSE IF anon_keys # << >>
        THEN AttachInside(st, idx, anon_keys[Len(anon_keys)])
        ELSE st

\* TrackWithoutId that opens no anonymous section.
TrackWithoutId_NoAnon(st, idx, text_blob) ==
    LET st1 == IF st.open # << >>
               THEN CloseEach(st, Keys(st.open), CloseIdx(idx))
               ELSE st
        end_type == _detect_section_end(text_blob)
        candidates == SelectSeq(Keys(st1.open),
                        LAMBDA k : st1.sections[SecOf(st1.open, k)].type = end_type)
    IN  IF end_type # None /\ candidates # << >>
        THEN _close_section_by_id(st1, candidates[Len(candidates)], idx)
        ELSE st1

\* TrackWithoutId that closes the open sections at the index of the
\* arriving record.
TrackWithoutId_CloseAtCurrent(st, idx, text_blob) ==
    LET st1 == IF st.open # << >>
               THEN CloseEach(st, Keys(st.open), idx)
               ELSE st
        start_type == _detect_section_start_type(text_blob)
        anon_keys == SelectSeq(Keys(st1.open), IsAnonKey)
        st2 == IF start_type # None
               THEN OpenSection(st1, idx, AnonKey(Len(st1.sections) + 1),
                                start_type, None)
               ELSE IF anon_keys # << >>
               THEN AttachInside(st1, idx, anon_keys[Len(anon_keys)])
               ELSE st1
        end_type == _detect_section_end(text_blob)
        candidates == SelectSeq(Keys(st2.open),
                        LAMBDA k : st2.sections[SecOf(st2.open, k)].type = end_type)
    IN  IF end_type # None /\ candidates # << >>
        THEN LET last_key == candidates[Len(candidates)]
                 sid == SecOf(st2.open, last_key)
             IN  [ open     |-> Pop(st2.open, last_key),
                   sections |-> [ st2.sections EXCEPT
                                    ![sid].end_index = idx,
                                    ![sid].end_ts = st2.entries[idx + 1].timestamp ],
                   entries  |-> Annotate(st2.entries, idx, st2.sections[sid], "end") ]
        ELSE st2

\* The rest of the loop body: a record without tf_req_id.
TrackWithoutId(st, idx, text_blob) ==
    LET st1 == IF st.open # << >>
               THEN CloseEach(st, Keys(st.open), CloseIdx(idx))
               ELSE st
        start_type == _detect_section_start_type(text_blob)
        anon_keys == SelectSeq(Keys(st1.open), IsAnonKey)
        st2 == IF start_type # None
               THEN OpenSection(st1, idx, AnonKey(Len(st1.sections) + 1),
                                start_type, None)
               ELSE IF anon_keys # << >>
               THEN AttachInside(st1, idx, anon_keys[Len(anon_keys)])
               ELSE st1
        end_type == _detect_section_end(text_blob)
        candidates == SelectSeq(Keys(st2.open),
                        LAMBDA k : st2.sections[SecOf(st2.open, k)].type = end_type)
    IN  IF end_type # None /\ candidates # << >>
        THEN LET last_key == candidates[Len(candidates)]
                 sid == SecOf(st2.open, last_key)
             IN  [ open     |-> Pop(st2.open, last_key),
                   sections |-> [ st2.sections EXCEPT
                                    ![sid].end_index = idx,
                                    ![sid].end_ts = st2.entries[idx + 1].timestamp ],
                   entries  |-> Annotate(st2.entries, idx, st2.sections[sid], "end") ]
        ELSE st2

\* SweepOne that drops the section from the dictionary and nothing else.
SweepOne_PopOnly(st, key) == [ st EXCEPT !.open = Pop(st.open, key) ]

\* SweepOne that marks the last record "end" whatever it carried.
SweepOne_Overwrite(st, key) ==
    LET sid == SecOf(st.open, key)
        sec == st.sections[sid]
        last_idx == Len(st.entries) - 1
    IN  [ open     |-> Pop(st.open, key),
          sections |-> [ st.sections EXCEPT
                           ![sid].end_index = last_idx,
                           ![sid].end_ts = st.entries[last_idx + 1].timestamp ],
          entries  |-> Annotate(st.entries, last_idx, sec, "end") ]

\* SweepOne that ends the section where it started.
SweepOne_AtStart(st, key) ==
    LET sid == SecOf(st.open, key)
        sec == st.sections[sid]
        event == PyOr(st.entries[sec.start_index + 1].section_event, "end")
    IN  [ open     |-> Pop(st.open, key),
          sections |-> [ st.sections EXCEPT
                           ![sid].end_index = sec.start_index,
                           ![sid].end_ts = sec.start_ts ],
          entries  |-> Annotate(st.entries, sec.start_index, sec, event) ]

\* One pass of the end-of-stream loop, for the open section under key.
SweepOne(st, key) ==
    LET sid == SecOf(st.open, key)
        sec == st.sections[sid]
        last_idx == Len(st.entries) - 1
        event == PyOr(st.entries[last_idx + 1].section_event, "end")
    IN  IF sec.end_index = NoIdx
        THEN [ open     |-> Pop(st.open, key),
               sections |-> [ st.sections EXCEPT
                                ![sid].end_index = last_idx,
                                ![sid].end_ts = st.entries[last_idx + 1].timestamp ],
               entries  |-> Annotate(st.entries, last_idx, sec, event) ]
        ELSE [ st EXCEPT !.open = Pop(st.open, key) ]

\* for key, sec in list(open_by_id.items()): ...
RECURSIVE SweepEach(_, _)
SweepEach(st, keys) ==
    IF keys = << >> THEN st
    ELSE SweepEach(SweepOne(st, Head(keys)), Tail(keys))

State == [ entries |-> entries, sections |-> sections, open |-> open_by_id ]

Install(st) ==
    /\ entries' = st.entries
    /\ sections' = st.sections
    /\ open_by_id' = st.open

\* One iteration of "for idx, entry in enumerate(parsed_entries)", for the
\* record entry.  A tf_req_id that cannot be hashed raises TypeError at
\* "if tfid not in open_by_id", after the other sections were closed.
ParseLogFileStep(entry) ==
    /\ fn = "parse_log_file"
    /\ pc = "loop"
    /\ LET idx == Len(entries)
           tfid == entry.tf_req_id
           text_blob == entry.message
           st == [ State EXCEPT !.entries = Append(entries, entry) ]
       IN  IF ~Truthy(tfid)
           THEN Install(TrackWithoutId(st, idx, text_blob)) /\ pc' = pc
           ELSE IF Hashable(tfid)
           THEN Install(TrackWithId(st, idx, tfid, text_blob)) /\ pc' = pc
           ELSE /\ Install(CloseEach(st, Keys(st.open), CloseIdx(idx)))
                /\ pc' = "raised"
    /\ UNCHANGED << fn, last_seen_index, parse_vars >>

\* The iteration for a record with the given tf_req_id and message.
ParseLogFileRecord(tfid, msg) == ParseLogFileStep(NewEntry(Len(entries), tfid, msg))

\* The code after the loop: every section that is still open is closed.
ParseLogFileSweep ==
    /\ fn = "parse_log_file"
    /\ pc = "loop"
    /\ Install(IF open_by_id # << >> THEN SweepEach(State, Keys(open_by_id)) ELSE State)
    /\ pc' = "done"
    /\ UNCHANGED << fn, last_seen_index, parse_vars >>

---------------------------------------------------------------------------
(* detect_sections_and_augment (hah.py).  It classifies by words, keeps    *)
(* the index at which every identifier was last seen, and appends a record *)
(* to entries at the end of its iteration: while record idx is processed,  *)
(* len(entries) is idx.                                                    *)

\* "apply complete" in s or "apply operation" in s or re.search(r"\bapply\b", s)
HasApplyWord(msg) ==
    msg \in { MsgApplyStart, MsgApplyEnd, MsgApplyStartEnd, MsgBothStart,
              MsgBothEnd }

\* re.search(r"\bplan\b", s) or "plan:" in s or "to add" in s
HasPlanWord(msg) ==
    msg \in { MsgPlanStart, MsgPlanEnd, MsgPlanStartEnd, MsgBothStart,
              MsgBothWords, MsgBothEnd }

\* re.search(r"plan:.*to add|to change|to destroy", s) or re.search(r"no changes", s)
HasPlanEndPhrase(msg) ==
    msg \in { MsgPlanEnd, MsgPlanStartEnd, MsgNoChanges, MsgBothEnd }

\* "apply complete" in s or "apply finished" in s
HasApplyEndPhrase(msg) ==
    msg \in { MsgApplyEnd, MsgApplyStartEnd, MsgBothEnd }

\* re.search(r"plan:\s*\d+\s*to add", m, re.I) or re.search(r"no changes", m, re.I)
HasPlanSummary(msg) ==
    msg \in { MsgPlanEnd, MsgPlanStartEnd, MsgNoChanges, MsgBothEnd }

\* "apply complete" in m.lower()
HasApplyComplete(msg) ==
    msg \in { MsgApplyEnd, MsgApplyStartEnd, MsgBothEnd }

\* _detect_type_by_words
_detect_type_by_words(msg) ==
    IF HasApplyWord(msg) THEN "apply"
    ELSE IF HasPlanWord(msg) THEN "plan"
    ELSE None

\* _is_end_message_for_type
_is_end_message_for_type(msg, t) ==
    IF t = "plan" THEN HasPlanEndPhrase(msg)
    ELSE IF t = "apply" THEN HasApplyEndPhrase(msg)
    ELSE FALSE

\* last_seen_index.get(k, default)
LastSeenGet(ls, k, default) ==
    IF k \in DOMAIN ls /\ ls[k] # NoIdx THEN ls[k] ELSE default

\* The section under key is closed at index at; the record there is marked
\* "end" if it is one of the n records appended so far.
CloseOpenAt(st, key, at, n) ==
    LET sid == SecOf(st.open, key)
        sec == st.sections[sid]
        in_range == 0 <= at /\ at < n
    IN  [ open     |-> Pop(st.open, key),
          sections |-> [ st.sections EXCEPT
                           ![sid].end_index = at,
                           ![sid].end_ts = IF in_range
                                           THEN st.entries[at + 1].timestamp
                                           ELSE sec.start_ts ],
          entries  |-> IF in_range THEN Annotate(st.entries, at, sec, "end")
                       ELSE st.entries ]

\* for otf in to_close: ...
RECURSIVE CloseStopped(_, _, _, _)
CloseStopped(st, keys, ls, idx) ==
    IF keys = << >> THEN st
    ELSE CloseStopped(
           CloseOpenAt(st, Head(keys), LastSeenGet(ls, Head(keys), CloseIdx(idx)), idx),
           Tail(keys), ls, idx)

\* The section under key is closed by the record at idx itself.
CloseAtCurrent(st, key, idx) ==
    LET sid == SecOf(st.open, key)
    IN  [ open     |-> Pop(st.open, key),
          sections |-> [ st.sections EXCEPT
                           ![sid].end_index = idx,
                           ![sid].end_ts = st.entries[idx + 1].timestamp ],
          entries  |-> [ st.entries EXCEPT ![idx + 1].section_event = "end" ] ]

\* AugmentWithId that closes the sections of the other identifiers first.
AugmentWithId_CloseOthers(st, idx, tfid, msg) ==
    LET st0 == CloseEach(st, SelectSeq(Keys(st.open), LAMBDA k : k # tfid),
                         CloseIdx(idx))
        stype == PyOr(_detect_type_by_words(msg), "plan")
        st1 == IF ~HasKey(st0.open, tfid)
               THEN OpenSection(st0, idx, tfid, stype, tfid)
               ELSE AttachInside(st0, idx, tfid)
        end_candidate == _detect_type_by_words(msg)
    IN  IF end_candidate # None /\ _is_end_message_for_type(msg, end_candidate)
        THEN CloseAtCurrent(st1, tfid, idx)
        ELSE st1

\* The branch "if tfid:" of the loop body (last_seen_index is set by the action).
AugmentWithId(st, idx, tfid, msg) ==
    LET stype == PyOr(_detect_type_by_words(msg), "plan")
        st1 == IF ~HasKey(st.open, tfid)
               THEN OpenSection(st, idx, tfid, stype, tfid)
               ELSE AttachInside(st, idx, tfid)
        end_candidate == _detect_type_by_words(msg)
    IN  IF end_candidate # None /\ _is_end_message_for_type(msg, end_candidate)
        THEN CloseAtCurrent(st1, tfid, idx)
        ELSE st1

\* The rest of the loop body: a record without tf_req_id.
AugmentWithoutId(st, idx, ls, msg) ==
    LET to_close == SelectSeq(Keys(st.open),
                      LAMBDA k : LastSeenGet(ls, k, NoIdx) = NoIdx
                                 \/ LastSeenGet(ls, k, NoIdx) < idx)
        st1 == IF st.open # << >> THEN CloseStopped(st, to_close, ls, idx) ELSE st
        stype == _detect_type_by_words(msg)
    IN  IF stype # None
        THEN LET anon_key == AnonKey(Len(st1.sections) + 1)
                 st2 == OpenSection(st1, idx, anon_key, stype, None)
             IN  IF _is_end_message_for_type(msg, stype)
                 THEN CloseAtCurrent(st2, anon_key, idx)
                 ELSE st2
        ELSE LET anon_keys == SelectSeq(Keys(st1.open), IsAnonKey)
                 st2 == IF anon_keys # << >>
                        THEN AttachInside(st1, idx, anon_keys[Len(anon_keys)])
                        ELSE st1
                 end_type == IF HasApplyComplete(msg) THEN "apply"
                             ELSE IF HasPlanSummary(msg) THEN "plan"
                             ELSE None
                 candidate_keys == SelectSeq(Keys(st2.open),
                        LAMBDA k : st2.sections[SecOf(st2.open, k)].type = end_type)
             IN  IF end_type # None /\ candidate_keys # << >>
                 THEN LET last_k == candidate_keys[Len(candidate_keys)]
                          sec == st2.sections[SecOf(st2.open, last_k)]
                      IN  [ CloseAtCurrent(st2, last_k, idx) EXCEPT
                              !.entries = Annotate(st2.entries, idx, sec, "end") ]
                 ELSE st2

\* One pass of the end-of-file loop of hah.py, for the open section under key.
AugmentSweepOne(st, key, ls) ==
    LET sid == SecOf(st.open, key)
        sec == st.sections[sid]
        last_idx == Len(st.entries) - 1
        close_idx == IF IsAnonKey(key) THEN last_idx
                     ELSE LastSeenGet(ls, key, last_idx)
        in_range == 0 <= close_idx /\ close_idx < Len(st.entries)
    IN  IF sec.end_index = NoIdx
        THEN [ open     |-> Pop(st.open, key),
               sections |-> [ st.sections EXCEPT
                                ![sid].end_index = close_idx,
                                ![sid].end_ts = IF in_range
                                                THEN st.entries[close_idx + 1].timestamp
                                                ELSE sec.start_ts ],
               entries  |-> IF in_range
                            THEN Annotate(st.entries, close_idx, sec,
                                   PyOr(st.entries[close_idx + 1].section_event, "end"))
                            ELSE st.entries ]
        ELSE [ st EXCEPT !.open = Pop(st.open, key) ]

RECURSIVE AugmentSweepEach(_, _, _)
AugmentSweepEach(st, keys, ls) ==
    IF keys = << >> THEN st
    ELSE AugmentSweepEach(AugmentSweepOne(st, Head(keys), ls), Tail(keys), ls)

\* One iteration of "for obj in read_jsonl(path)".  A tf_req_id that
\* cannot be hashed raises TypeError at "last_seen_index[tfid] = idx".
AugmentRecord(tfid, msg) ==
    /\ fn = "detect_sections_and_augment"
    /\ pc = "loop"
    /\ LET idx == Len(entries)
           st == [ State EXCEPT !.entries = Append(entries, NewEntry(idx, tfid, msg)) ]
       IN  IF ~Truthy(tfid)
           THEN /\ last_seen_index' = last_seen_index
                /\ Install(AugmentWithoutId(st, idx, last_seen_index, msg))
                /\ pc' = pc
           ELSE IF Hashable(tfid)
           THEN /\ last_seen_index' = [ last_seen_index EXCEPT ![tfid] = idx ]
                /\ Install(AugmentWithId(st, idx, tfid, msg))
                /\ pc' = pc
           ELSE /\ pc' = "raised"
                /\ UNCHANGED << entries, sections, open_by_id, last_seen_index >>
    /\ UNCHANGED << fn, parse_vars >>

\* The code after the loop of hah.py.
\* The loop stops at the first key that is not a string: key.startswith
\* raises AttributeError, after the sections before it were closed.
AugmentSweep ==
    /\ fn = "detect_sections_and_augment"
    /\ pc = "loop"
    /\ LET keys == Keys(open_by_id)
           bad == { i \in 1..Len(keys) : ~IsStr(keys[i]) }
           first_bad == CHOOSE i \in bad : \A j \in bad : i <= j
       IN  IF bad = { }
           THEN /\ Install(AugmentSweepEach(State, keys, last_seen_index))
                /\ pc' = "done"
           ELSE /\ Install(AugmentSweepEach(State, SubSeq(keys, 1, first_bad - 1),
                                            last_seen_index))
                /\ pc' = "raised"
    /\ UNCHANGED << fn, last_seen_index, parse_vars >>

---------------------------------------------------------------------------
Init ==
    /\ fn \in { "parse_log_file", "detect_sections_and_augment" }
    /\ pc = "loop"
    /\ entries = << >>
    /\ sections = << >>
    /\ open_by_id = << >>
    /\ last_seen_index = [ id \in TfKeys |-> NoIdx ]
    /\ _last = None
    /\ call = 1
    /\ payloads = << >>
    /\ parsed_entries = << >>
    /\ current_section = None

Next ==
    \/ /\ Len(entries) < MaxLen
       /\ \E tfid \in TfIds \cup { None }, msg \in Messages :
            ParseLogFileRecord(tfid, msg)
    \/ ParseLogFileSweep
    \/ /\ Len(entries) < MaxLen
       /\ \E tfid \in TfIds \cup { None }, msg \in HahMessages :
            AugmentRecord(tfid, msg)
    \/ AugmentSweep

Spec == Init /\ [][Next]_vars

\* parse_log_file on shorter streams whose messages are drawn from AllMessages.
InitWords == Init /\ fn = "parse_log_file"

NextWords ==
    \/ /\ Len(entries) < MaxLenWords
       /\ \E tfid \in TfIds \cup { None }, msg \in AllMessages :
            ParseLogFileRecord(tfid, msg)
    \/ ParseLogFileSweep

SpecWords == InitWords /\ [][NextWords]_vars

---------------------------------------------------------------------------
(* parse_log_file from the payloads on, called more than once in one       *)
(* process: it first turns every payload into a record, then runs the      *)
(* record loop over the records, and the next call starts afresh, with     *)
(* whatever the last call left in _normalize_timestamp._last.              *)

\* Longest stream of payloads of one call.
MaxStream == 3
\* Calls of parse_log_file in the process.
MaxCalls == 2

\* The payloads: with and without tf_req_id, the timestamp under a first or
\* a later key, in the message only, missing, blank or unparsable; the last
\* one has its identifier under a case variant of the key.
TsPayloads ==
    { ("tf_req_id" :> "a") @@ ("@message" :> MsgUnrelated) @@ ("@timestamp" :> RawIso),
      ("tf_req_id" :> "a") @@ ("@message" :> MsgApplyStart) @@ ("timestamp" :> RawComma),
      ("@message" :> MsgWithAltTs),
      ("@message" :> MsgUnrelated),
      ("tf_req_id" :> "b") @@ ("@message" :> MsgUnrelated) @@ ("@timestamp" :> RawBad),
      ("tf_req_id" :> "a") @@ ("@message" :> MsgWithIsoTs) @@ ("ts" :> RawBad),
      ("@message" :> MsgApplyEnd) @@ ("@timestamp" :> RawBlank) @@ ("date" :> RawAlt),
      ("tf_req_id" :> "b") @@ ("@message" :> MsgApplyEnd) @@ ("time" :> RawBlank),
      ("TF_REQ_ID" :> "a") @@ ("@message" :> MsgUnrelated) @@ ("@timestamp" :> RawIso) }

\* ParseEntry that leaves out a payload whose timestamp does not parse.
ParseEntry_SkipUnparsed(d) ==
    /\ fn = "parse_log_file"
    /\ pc = "parse"
    /\ LET r == parse_entry_from_dict(d, _last)
       IN  /\ parsed_entries' = IF r.entry.timestamp = _last THEN parsed_entries
                                ELSE Append(parsed_entries, r.entry)
           /\ _last' = r.last
    /\ payloads' = Append(payloads, d)
    /\ UNCHANGED << fn, pc, call, entries, sections, open_by_id, last_seen_index,
                    current_section >>

\* One iteration of "for obj in read_jsonl(path)": the payload d is read and
\* its record appended to parsed_entries.
ParseEntry(d) ==
    /\ fn = "parse_log_file"
    /\ pc = "parse"
    /\ LET r == parse_entry_from_dict(d, _last)
       IN  /\ parsed_entries' = Append(parsed_entries, r.entry)
           /\ _last' = r.last
    /\ payloads' = Append(payloads, d)
    /\ UNCHANGED << fn, pc, call, entries, sections, open_by_id, last_seen_index,
                    current_section >>

\* read_jsonl is exhausted: the record loop starts on an empty section table.
EndOfInput ==
    /\ fn = "parse_log_file"
    /\ pc = "parse"
    /\ pc' = "loop"
    /\ UNCHANGED << fn, entries, sections, open_by_id, last_seen_index, parse_vars >>

\* The iteration of the record loop for the next record of parsed_entries.
TrackParsed ==
    /\ Len(entries) < Len(parsed_entries)
    /\ ParseLogFileStep(EntryOf(parsed_entries[Len(entries) + 1]))

\* The code after the loop, once the loop is through parsed_entries.
SweepParsed ==
    /\ Len(entries) = Len(parsed_entries)
    /\ ParseLogFileSweep

\* parse_log_file has returned and is called again in the same process:
\* its locals are new, the function attribute _last is what it was.
NextCall ==
    /\ fn = "parse_log_file"
    /\ pc = "done"
    /\ call < MaxCalls
    /\ call' = call + 1
    /\ pc' = "parse"
    /\ entries' = << >>
    /\ sections' = << >>
    /\ open_by_id' = << >>
    /\ payloads' = << >>
    /\ parsed_entries' = << >>
    /\ UNCHANGED << fn, last_seen_index, _last, current_section >>

InitTs ==
    /\ fn = "parse_log_file"
    /\ pc = "parse"
    /\ entries = << >>
    /\ sections = << >>
    /\ open_by_id = << >>
    /\ last_seen_index = [ id \in TfKeys |-> NoIdx ]
    /\ _last = None
    /\ call = 1
    /\ payloads = << >>
    /\ parsed_entries = << >>
    /\ current_section = None

NextTs ==
    \/ /\ Len(payloads) < MaxStream
       /\ \E d \in TsPayloads : ParseEntry(d)
    \/ EndOfInput
    \/ TrackParsed
    \/ SweepParsed
    \/ NextCall

SpecTs == InitTs /\ [][NextTs]_vars

---------------------------------------------------------------------------
(* Both trackers on streams whose tf_req_id is of any JSON type.           *)

\* Longest stream that is explored with the identifiers of TfValues.
MaxLenTypes == 3

\* No tf_req_id, a string, a number, zero, a list, an object, and a string
\* with the prefix of the anonymous keys.
TfValues == { None, "a", TfNumber, TfZero, TfList, TfObject, TfAnonLike }

TypesMessages == { MsgUnrelated, MsgApplyEnd }

NextTypes ==
    \/ /\ Len(entries) < MaxLenTypes
       /\ \E tfid \in TfValues, msg \in TypesMessages :
            ParseLogFileRecord(tfid, msg)
    \/ ParseLogFileSweep
    \/ /\ Len(entries) < MaxLenTypes
       /\ \E tfid \in TfValues, msg \in TypesMessages :
            AugmentRecord(tfid, msg)
    \/ AugmentSweep

SpecTypes == Init /\ [][NextTypes]_vars

---------------------------------------------------------------------------
(* Properties.  N is the number of records read so far; a step of          *)
(* parse_log_file that reads a record has pc' = "loop", and the record it  *)
(* reads is the last element of entries'.                                  *)

N == Len(entries)

InParse == fn = "parse_log_file"

\* The request identifiers of the records read so far, in order.
TfIdsRead == [ i \in 1..N |-> entries[i].tf_req_id ]

\* A message that matches no start pattern and no end pattern.
Plain(msg) == ~MatchesStartPattern(msg) /\ ~MatchesEndPattern(msg)

\* C1: in parse_log_file, when the record at index i bears a request
\* identifier different from that of an open identifier-keyed section, the
\* section is closed with endIndex = i - 1, and the record at i - 1 is the
\* last one that bears the section's identifier.
C1_Step ==
    (InParse /\ pc' = "loop") =>
        \A k \in 1..Len(open_by_id) :
            LET sid == open_by_id[k].sec
                rec == entries'[N + 1]
            IN  ( /\ sections[sid].tf_req_id # None
                  /\ rec.tf_req_id # None
                  /\ rec.tf_req_id # sections[sid].tf_req_id )
                => /\ sections'[sid].end_index = N - 1
                   /\ entries[N].tf_req_id = sections[sid].tf_req_id
                   /\ ~\E j \in 1..Len(open_by_id') : open_by_id'[j].sec = sid

\* C1, its example: after the stream [{id:a},{id:a},{id:b},{}] the section
\* opened for a has endIndex = 1.
C1_Example ==
    ( /\ InParse
      /\ TfIdsRead = << "a", "a", "b", None >>
      /\ \A i \in 1..N : Plain(entries[i].message) )
    => /\ sections[1].tf_req_id = "a"
       /\ sections[1].start_index = 0
       /\ sections[1].end_index = 1

C1_ClosedAtPreviousIndex == [][C1_Step]_vars /\ []C1_Example

C1_Witness ==
    /\ InParse
    /\ pc = "done"
    /\ TfIdsRead = << "a", "a", "b", None >>
    /\ \A i \in 1..N : Plain(entries[i].message)
    /\ sections[1].end_index = 1

\* The stream of the anonymous fallback scenario: three records without
\* identifier; an apply start, a message without pattern, an apply end.
C2_Scenario ==
    /\ InParse
    /\ pc = "done"
    /\ TfIdsRead = << None, None, None >>
    /\ _detect_section_start_type(entries[1].message) = "apply"
    /\ _detect_section_end(entries[1].message) = None
    /\ Plain(entries[2].message)
    /\ _detect_section_start_type(entries[3].message) = None
    /\ _detect_section_end(entries[3].message) = "apply"

\* C2: the anonymous fallback scenario yields exactly one section, which is
\* anonymous and spans the indices 0 to 2.
C2_AnonymousFallback ==
    C2_Scenario =>
        /\ Len(sections) = 1
        /\ sections[1].tf_req_id = None
        /\ sections[1].start_index = 0
        /\ sections[1].end_index = 2

\* The stream of the end-to-end scenario: n >= 2 records of one identifier,
\* the first a plan start, the last a plan end, nothing in between, and
\* one trailing record without identifier and without pattern.
C3_Scenario(n) ==
    /\ InParse
    /\ pc = "done"
    /\ N = n + 1
    /\ \A i \in 1..n : entries[i].tf_req_id = entries[1].tf_req_id
    /\ entries[1].tf_req_id # None
    /\ _detect_section_start_type(entries[1].message) = "plan"
    /\ _detect_section_end(entries[1].message) = None
    /\ \A i \in 2..(n - 1) : Plain(entries[i].message)
    /\ _detect_section_start_type(entries[n].message) = None
    /\ _detect_section_end(entries[n].message) = "plan"
    /\ entries[n + 1].tf_req_id = None
    /\ Plain(entries[n + 1].message)

\* C3: the end-to-end scenario yields exactly one section {type: plan,
\* requestId: r1, startIndex: 0, endIndex: n-1, entryCount: n}, and the
\* trailing record carries no section annotation.
C3_EndToEnd ==
    \A n \in 2..N :
        C3_Scenario(n) =>
            /\ Len(sections) = 1
            /\ sections[1].id = 1
            /\ sections[1].type = "plan"
            /\ sections[1].tf_req_id = entries[1].tf_req_id
            /\ sections[1].start_index = 0
            /\ sections[1].end_index = n - 1
            /\ sections[1].entries = n
            /\ entries[n + 1].section_id = NoSec
            /\ entries[n + 1].section_type = None
            /\ entries[n + 1].section_event = None

C3_Witness == C3_Scenario(3)

\* C4: a record of parse_log_file whose identifier has no open section and
\* whose message matches a start and an end pattern of the same type makes
\* a section with startIndex = endIndex = its index; after the record is
\* processed its sectionEvent is "end" and the section is not open.
C4_ImmediateClose ==
    [][ (InParse /\ pc' = "loop") =>
          LET rec == entries'[N + 1]
              new == sections'[Len(sections')]
          IN  ( /\ rec.tf_req_id # None
                /\ ~HasKey(open_by_id, rec.tf_req_id)
                /\ _detect_section_start_type(rec.message) # None
                /\ _detect_section_start_type(rec.message)
                     = _detect_section_end(rec.message) )
              => /\ Len(sections') = Len(sections) + 1
                 /\ new.tf_req_id = rec.tf_req_id
                 /\ new.start_index = N
                 /\ new.end_index = N
                 /\ rec.section_id = new.id
                 /\ rec.section_event = "end"
                 /\ ~HasKey(open_by_id', rec.tf_req_id)
                 /\ ~\E j \in 1..Len(open_by_id') : open_by_id'[j].sec = new.id
      ]_vars

C4_Witness ==
    /\ InParse
    /\ \E i \in 1..N :
         /\ entries[i].tf_req_id # None
         /\ _detect_section_start_type(entries[i].message) # None
         /\ _detect_section_start_type(entries[i].message)
              = _detect_section_end(entries[i].message)
         /\ entries[i].section_event = "end"
         /\ sections[entries[i].section_id].start_index = i - 1
         /\ sections[entries[i].section_id].end_index = i - 1

\* The message of the record that opened section sec.
OpeningMessage(sec) == entries[sec.start_index + 1].message

\* C5 as stated: whenever a section of parse_log_file is opened by a record
\* whose message contains both an "apply" and a "plan" keyword, the
\* section's type is apply.
C5_ApplyWinsByWords ==
    InParse =>
        \A k \in 1..Len(sections) :
            ( /\ ContainsApply(OpeningMessage(sections[k]))
              /\ ContainsPlan(OpeningMessage(sections[k])) )
            => sections[k].type = "apply"

\* C5, amended: whenever a section of parse_log_file is opened by a record
\* whose message matches a start pattern or an end pattern and contains
\* both an "apply" and a "plan" keyword, the section's type is apply.
C5_ApplyWinsOnPattern ==
    InParse =>
        \A k \in 1..Len(sections) :
            ( /\ MatchesStartPattern(OpeningMessage(sections[k]))
                 \/ MatchesEndPattern(OpeningMessage(sections[k]))
              /\ ContainsApply(OpeningMessage(sections[k]))
              /\ ContainsPlan(OpeningMessage(sections[k])) )
            => sections[k].type = "apply"

C5_Witness ==
    /\ InParse
    /\ \E k \in 1..Len(sections) :
         /\ OpeningMessage(sections[k]) = MsgBothStart
         /\ sections[k].type = "apply"

\* C6: in every reachable state of parse_log_file and of
\* detect_sections_and_augment, no two sections with endIndex = null have
\* the same non-null requestId.
C6_OneOpenPerRequestId ==
    \A j, k \in 1..Len(sections) :
        ( /\ j # k
          /\ sections[j].end_index = NoIdx
          /\ sections[k].end_index = NoIdx
          /\ sections[j].tf_req_id # None )
        => sections[j].tf_req_id # sections[k].tf_req_id

\* An identifier has an open section and an earlier, closed one, while a
\* section of another identifier is open as well.
C6_Witness ==
    \E j, k, l \in 1..Len(sections) :
        /\ j < k
        /\ sections[j].tf_req_id # None
        /\ sections[j].tf_req_id = sections[k].tf_req_id
        /\ sections[j].end_index # NoIdx
        /\ sections[k].end_index = NoIdx
        /\ sections[l].tf_req_id \notin { None, sections[k].tf_req_id }
        /\ sections[l].end_index = NoIdx

\* C7: after the whole stream is consumed and the end-of-stream sweep has
\* run, the open-section table is empty and every section of the section
\* table has a non-null endIndex.
C7_AllClosedAtEnd ==
    pc = "done" =>
        /\ open_by_id = << >>
        /\ \A k \in 1..Len(sections) : sections[k].end_index # NoIdx

\* The sweep of parse_log_file has closed a section: nothing before the end
\* of the stream had marked its last record "end".
C7_Witness ==
    /\ InParse
    /\ pc = "done"
    /\ \E k \in 1..Len(sections) :
         /\ sections[k].end_index = N - 1
         /\ sections[k].start_index < N - 1
         /\ entries[N].section_id = k
         /\ entries[N].section_event = "inside"

\* C8: for every section that has been closed, both indices are indices of
\* the record sequence and 0 <= startIndex <= endIndex <= number of
\* records - 1.
C8_ClosedBoundsValid ==
    \A k \in 1..Len(sections) :
        sections[k].end_index # NoIdx =>
            /\ 0 <= sections[k].start_index
            /\ sections[k].start_index <= sections[k].end_index
            /\ sections[k].end_index <= N - 1

\* A section of one record, closed when another identifier arrived, and a
\* longer closed section.
C8_Witness ==
    \E j, k \in 1..Len(sections) :
        /\ sections[j].end_index # NoIdx
        /\ sections[j].start_index = sections[j].end_index
        /\ sections[j].tf_req_id # None
        /\ Plain(entries[sections[j].start_index + 1].message)
        /\ sections[k].end_index # NoIdx
        /\ sections[k].start_index < sections[k].end_index

\* C9: once parse_log_file has set a section's endIndex, no later record
\* and not the end-of-stream sweep changes any field of the section, and
\* the section never re-enters the open-section table.
C9_ClosedIsFrozen ==
    [][ InParse =>
          \A k \in 1..Len(sections) :
              sections[k].end_index # NoIdx =>
                  /\ Len(sections') >= k
                  /\ sections'[k] = sections[k]
                  /\ ~\E j \in 1..Len(open_by_id') : open_by_id'[j].sec = k
      ]_vars

\* A section was closed, records bearing its identifier came after it, and
\* the sweep has run.
C9_Witness ==
    /\ InParse
    /\ pc = "done"
    /\ \E k \in 1..Len(sections) :
         /\ sections[k].tf_req_id # None
         /\ sections[k].end_index < N - 1
         /\ \E i \in (sections[k].end_index + 2)..N :
              entries[i].tf_req_id = sections[k].tf_req_id

\* C10 as stated: a sectionEvent that has been written is changed only
\* while its own record is processed ("start" becoming "end"): a step of
\* parse_log_file changes the sectionEvent of no record read before it.
C10_EventWrittenOnce ==
    [][ InParse =>
          \A i \in 1..N :
              entries[i].section_event # None =>
                  entries'[i].section_event = entries[i].section_event
      ]_vars

\* C10, amended: once a record's sectionEvent has been written, the only
\* later change is to "end": on the record itself while it is processed,
\* or on record i-1, from "start" or "inside", while record i is processed
\* and closes the section record i-1 belongs to.  An "end" is never
\* rewritten, processing record i never changes the sectionEvent of a
\* record with index < i-1, and the end-of-stream sweep changes none.
C10_EventRewrittenOnlyToEnd ==
    [][ InParse =>
          \A i \in 1..N :
              entries'[i].section_event # entries[i].section_event =>
                  /\ pc' = "loop"
                  /\ i = N
                  /\ entries[i].section_event \in { "start", "inside" }
                  /\ entries'[i].section_event = "end"
                  /\ sections'[entries[i].section_id].end_index = N - 1
                  /\ sections[entries[i].section_id].end_index = NoIdx
      ]_vars

\* A record marked "inside" was rewritten to "end" by the record after it.
C10_Witness ==
    /\ InParse
    /\ \E i \in 2..(N - 1) :
         /\ entries[i].section_event = "end"
         /\ entries[i].tf_req_id # None
         /\ entries[i - 1].tf_req_id = entries[i].tf_req_id
         /\ Plain(entries[i - 1].message)
         /\ Plain(entries[i].message)
         /\ entries[i].section_id = entries[i - 1].section_id

---------------------------------------------------------------------------
(* Properties of the timestamps.  NP is the number of payloads the running *)
(* call has read; payload k and record k are payloads[k], parsed_entries[k].*)

NP == Len(parsed_entries)

\* The raw timestamp parse_entry_from_dict finds for the payload d.
RawTsOf(d) ==
    IF FirstUsable(d, TIMESTAMP_KEYS) # None THEN FirstUsable(d, TIMESTAMP_KEYS)
    ELSE _find_ts_in_text(d["@message"])

\* What the timestamp of d parses to; None if it is missing, empty or unparsable.
ParsedTsOf(d) == PyOr(FromIsoFormat(RawTsOf(d)), FromAltFormat(RawTsOf(d)))

\* The records before k whose timestamp parsed.
ParsedBefore(k) == { j \in 1..(k - 1) : ParsedTsOf(payloads[j]) # None }

\* C11: timestamp carry-forward.  If record k has no parseable timestamp and
\* j < k is the nearest earlier record of the stream whose timestamp parsed,
\* to T, then the normalized timestamp of record k is T.
C11_CarryForward ==
    \A k \in 1..NP :
        (ParsedTsOf(payloads[k]) = None /\ ParsedBefore(k) # { })
        => LET j == CHOOSE j \in ParsedBefore(k) : \A i \in ParsedBefore(k) : i <= j
           IN  parsed_entries[k].timestamp = ParsedTsOf(payloads[j])

C11_Witness ==
    /\ NP = 3
    /\ ParsedTsOf(payloads[1]) = "2024-01-01T10:00:00"
    /\ ParsedTsOf(payloads[2]) = "2024-01-02T03:04:05"
    /\ RawTsOf(payloads[3]) = RawBad
    /\ parsed_entries[3].timestamp = "2024-01-02T03:04:05"

\* C12: the sentinel rule.  A record without parseable timestamp, in a
\* stream none of whose earlier records parsed, has the far-future sentinel
\* as its normalized timestamp.
C12_SentinelUntilParsed ==
    \A k \in 1..NP :
        (ParsedTsOf(payloads[k]) = None /\ ParsedBefore(k) = { })
        => parsed_entries[k].timestamp = MaxTsMarker

\* The timestamps parse_entry_from_dict gives the stream ds, from _last = last on.
RECURSIVE TimestampsFrom(_, _)
TimestampsFrom(ds, last) ==
    IF ds = << >> THEN << >>
    ELSE LET r == parse_entry_from_dict(Head(ds), last)
         IN  << r.entry.timestamp >> \o TimestampsFrom(Tail(ds), r.last)

\* C13: the carry-forward state is scoped to one stream.  In a second call
\* of parse_log_file in the same process the normalized timestamps are those
\* the stream gets on its own, whatever the first stream was.
C13_ScopedToStream ==
    call > 1 =>
        \A k \in 1..NP :
            parsed_entries[k].timestamp = TimestampsFrom(payloads, None)[k]

\* C14: positional identity.  parse_log_file makes exactly one record per
\* payload, in order: record k is the normalization of payload k and its
\* json is payload k; the record loop works on the records in that order
\* and yields all of them, none dropped, doubled or moved.
C14_PositionalIdentity ==
    /\ NP = Len(payloads)
    /\ \A k \in 1..NP :
         /\ parsed_entries[k].json = payloads[k]
         /\ parsed_entries[k].message = payloads[k]["@message"]
         /\ ParsedTsOf(payloads[k]) # None
              => parsed_entries[k].timestamp = ParsedTsOf(payloads[k])
    /\ Len(entries) <= NP
    /\ \A k \in 1..Len(entries) :
         /\ entries[k].tf_req_id = PayloadTfId(payloads[k])
         /\ entries[k].message = parsed_entries[k].message
         /\ entries[k].timestamp = parsed_entries[k].timestamp
    /\ pc = "done" => Len(entries) = Len(payloads)

C14_Witness ==
    /\ pc = "done"
    /\ Len(payloads) = 3
    /\ Len(entries) = 3
    /\ "tf_req_id" \notin DOMAIN payloads[1]
    /\ PayloadTfId(payloads[2]) = "a"
    /\ PayloadTfId(payloads[3]) = "b"
    /\ ParsedTsOf(payloads[2]) = None

\* C17: every normalized record has a non-empty timestamp: its own parsed
\* value, the value of an earlier record, the value the process carried
\* into the call, or the sentinel; never None, never the empty string.
C17_TimestampNonEmpty ==
    \A k \in 1..NP :
        /\ parsed_entries[k].timestamp \notin { None, "" }
        /\ \/ parsed_entries[k].timestamp = ParsedTsOf(payloads[k])
           \/ parsed_entries[k].timestamp = MaxTsMarker
           \/ k > 1 /\ parsed_entries[k].timestamp = parsed_entries[k - 1].timestamp
           \/ /\ k = 1
              /\ call > 1
              /\ parsed_entries[k].timestamp \in
                   { ParsedTsOf(d) : d \in TsPayloads }

C17_Witness ==
    /\ call = 1
    /\ NP = 2
    /\ "@timestamp" \notin DOMAIN payloads[1]
    /\ RawTsOf(payloads[1]) = None
    /\ parsed_entries[1].timestamp = MaxTsMarker
    /\ RawTsOf(payloads[2]) = RawBad
    /\ parsed_entries[2].timestamp = MaxTsMarker

---------------------------------------------------------------------------
(* Properties of the record loop, continued.  In a step of parse_log_file  *)
(* that reads a record, the record has index N and is entries'[N + 1].     *)

\* The section with id sid is in the dictionary open.
IsOpenIn(open, sid) == \E j \in 1..Len(open) : open[j].sec = sid

\* C15: the section tracker never raises.  Whatever the presence, type or
\* value of tf_req_id and whatever the message, parse_log_file and
\* detect_sections_and_augment run to their end; no stream leaves either
\* of them by an exception.
C15_TrackerNeverRaises == pc # "raised"

\* C16: section ids are sequence numbers in creation order from 1.  At every
\* point of both functions the k-th section of the table has id k, ids are
\* pairwise distinct, and a section created later starts at an index that is
\* greater than or equal to that of every earlier one.
C16_IdsAreSequenceNumbers ==
    \A k \in 1..Len(sections) :
        /\ sections[k].id = k
        /\ \A j \in 1..(k - 1) :
             /\ sections[j].id # sections[k].id
             /\ sections[j].start_index <= sections[k].start_index

C16_Witness ==
    /\ fn = "detect_sections_and_augment"
    /\ pc = "loop"
    /\ Len(sections) = 3
    /\ Len(open_by_id) = 2
    /\ sections[1].end_index # NoIdx
    /\ sections[3].start_index = 2

\* C18: in parse_log_file a record at index i > 0 without request identifier
\* closes every identifier-keyed section that is open when it arrives: the
\* section's endIndex is i - 1, its endTimestamp the timestamp of record
\* i - 1, record i - 1 is marked "end", and the record itself is not
\* attributed to the section.
C18_Step ==
    (InParse /\ pc' = "loop" /\ N > 0 /\ ~Truthy(entries'[N + 1].tf_req_id)) =>
        \A k \in 1..Len(open_by_id) :
            LET sid == open_by_id[k].sec
            IN  sections[sid].tf_req_id # None
                => /\ sections'[sid].end_index = N - 1
                   /\ sections'[sid].end_ts = entries[N].timestamp
                   /\ entries'[N].section_event = "end"
                   /\ entries'[N + 1].section_id # sid
                   /\ ~IsOpenIn(open_by_id', sid)

C18_NoIdClosesAtPrevious == [][C18_Step]_vars

C18_Witness ==
    /\ InParse
    /\ pc = "loop"
    /\ TfIdsRead = << "a", "a", None >>
    /\ sections[1].tf_req_id = "a"
    /\ sections[1].end_index = 1
    /\ sections[1].end_ts = entries[2].timestamp
    /\ entries[2].section_event = "end"
    /\ entries[3].section_id # 1

\* C19: in parse_log_file a record without request identifier that matches
\* neither a start nor an end pattern and arrives while an anonymous section
\* is open is attached to it: the record gets the section's id and type and
\* the event "inside", the section's entry count grows by one, and the
\* section stays open.
C19_Step ==
    ( /\ InParse
      /\ pc' = "loop"
      /\ ~Truthy(entries'[N + 1].tf_req_id)
      /\ Plain(entries'[N + 1].message) ) =>
        \A k \in 1..Len(open_by_id) :
            LET sid == open_by_id[k].sec
                rec == entries'[N + 1]
            IN  ( /\ sections[sid].tf_req_id = None
                  /\ \A j \in (k + 1)..Len(open_by_id) :
                        sections[open_by_id[j].sec].tf_req_id # None )
                => /\ rec.section_id = sid
                   /\ rec.section_type = sections[sid].type
                   /\ rec.section_event = "inside"
                   /\ sections'[sid].entries = sections[sid].entries + 1
                   /\ IsOpenIn(open_by_id', sid)

C19_AttachToAnonymous == [][C19_Step]_vars

\* C20: in parse_log_file an end pattern in a record that bears a request
\* identifier closes the section of that identifier only if the pattern's
\* type is the section's type: then the section ends at the record's index
\* and the record is marked "end"; with an end pattern of the other type
\* the section stays open and the record keeps "start" or "inside".
C20_Step ==
    (InParse /\ pc' = "loop" /\ Truthy(entries'[N + 1].tf_req_id)) =>
        LET rec == entries'[N + 1]
            sid == rec.section_id
            end_type == _detect_section_end(rec.message)
        IN  /\ sid # NoSec
            /\ sections'[sid].tf_req_id = rec.tf_req_id
            /\ (end_type # None /\ end_type = sections'[sid].type)
               => /\ sections'[sid].end_index = N
                  /\ rec.section_event = "end"
                  /\ ~IsOpenIn(open_by_id', sid)
            /\ (end_type # None /\ end_type # sections'[sid].type)
               => /\ sections'[sid].end_index = NoIdx
                  /\ rec.section_event \in { "start", "inside" }
                  /\ IsOpenIn(open_by_id', sid)

C20_EndOfOwnTypeOnly == [][C20_Step]_vars

C20_Witness ==
    /\ InParse
    /\ pc = "loop"
    /\ TfIdsRead = << "a", "a" >>
    /\ entries[1].message = MsgApplyStart
    /\ entries[2].message = MsgPlanEnd
    /\ sections[1].type = "apply"
    /\ sections[1].end_index = NoIdx
    /\ entries[2].section_event = "inside"
    /\ IsOpenIn(open_by_id, 1)

---------------------------------------------------------------------------
(* Properties of detect_sections_and_augment.  In a step that reads a      *)
(* record, the record has index N and is entries'[N + 1].                  *)

InAugment == fn = "detect_sections_and_augment"

\* The step reads a record and the function goes on.
ReadsRecord == pc = "loop" /\ pc' = "loop" /\ Len(entries') = N + 1

\* The message is end phrasing of type t and not of the other type.
EndPhrasingOnlyOf(msg, t) ==
    /\ _is_end_message_for_type(msg, t)
    /\ ~_is_end_message_for_type(msg, IF t = "plan" THEN "apply" ELSE "plan")

\* C21: in detect_sections_and_augment a record that bears the identifier
\* of an open section and whose message is completion phrasing of the other
\* type (plan phrasing for an apply section, apply phrasing for a plan
\* section) leaves the section open.
C21_Step ==
    (InAugment /\ ReadsRecord /\ Truthy(entries'[N + 1].tf_req_id)) =>
        \A k \in 1..Len(open_by_id) :
            LET sid == open_by_id[k].sec
                rec == entries'[N + 1]
                other == IF sections[sid].type = "plan" THEN "apply" ELSE "plan"
            IN  ( /\ open_by_id[k].key = rec.tf_req_id
                  /\ EndPhrasingOnlyOf(rec.message, other) )
                => /\ IsOpenIn(open_by_id', sid)
                   /\ sections'[sid].end_index = NoIdx

C21_EndOfOwnTypeOnly == [][C21_Step]_vars

---------------------------------------------------------------------------
(* detect_sections_and_augment on longer streams of few messages: records  *)
(* of two identifiers that alternate, and records without identifier.      *)

\* Longest stream that is explored with the messages of InterleaveMessages.
MaxLenInterleave == 5

InterleaveMessages == { MsgUnrelated, MsgApplyEnd }

InitInterleave == Init /\ fn = "detect_sections_and_augment"

NextInterleave ==
    \/ /\ Len(entries) < MaxLenInterleave
       /\ \E tfid \in TfIds \cup { None }, msg \in InterleaveMessages :
            AugmentRecord(tfid, msg)
    \/ AugmentSweep

SpecInterleave == InitInterleave /\ [][NextInterleave]_vars

\* The last index at which a record bearing the identifier id was read.
LastIndexOf(id) ==
    LET at == { i \in 1..N : entries[i].tf_req_id = id }
    IN  (CHOOSE i \in at : \A j \in at : j <= i) - 1

\* C22: in detect_sections_and_augment sections of different identifiers
\* are open at the same time.  A record bearing identifier b leaves an open
\* section of an identifier a # b open and as it is; a record without
\* identifier, and the end of the stream, close each such section with
\* endIndex = the last index at which its own identifier appeared.
C22_Step ==
    InAugment =>
        \A k \in 1..Len(open_by_id) :
            LET sid == open_by_id[k].sec
                key == open_by_id[k].key
            IN  sections[sid].tf_req_id # None =>
                  /\ ( /\ ReadsRecord
                       /\ Truthy(entries'[N + 1].tf_req_id)
                       /\ entries'[N + 1].tf_req_id # key )
                     => /\ IsOpenIn(open_by_id', sid)
                        /\ sections'[sid] = sections[sid]
                  /\ ( \/ ReadsRecord /\ ~Truthy(entries'[N + 1].tf_req_id)
                       \/ pc = "loop" /\ pc' = "done" )
                     => /\ ~IsOpenIn(open_by_id', sid)
                        /\ sections'[sid].end_index = LastIndexOf(key)

\* C22, its example: after the records a, b, a, b and one without
\* identifier, section a ends at index 2 and section b at index 3.
C22_Example ==
    ( /\ InAugment
      /\ TfIdsRead = << "a", "b", "a", "b", None >>
      /\ \A i \in 1..N : entries[i].message = MsgUnrelated )
    => /\ sections[1].tf_req_id = "a"
       /\ sections[1].end_index = 2
       /\ sections[2].tf_req_id = "b"
       /\ sections[2].end_index = 3

C22_InterleavedSections == [][C22_Step]_vars /\ []C22_Example

C22_Witness ==
    /\ InAugment
    /\ pc = "loop"
    /\ TfIdsRead = << "a", "b", "a", "b", None >>
    /\ \A i \in 1..N : entries[i].message = MsgUnrelated
    /\ Len(sections) = 2
    /\ sections[1].end_index = 2
    /\ sections[2].end_index = 3

\* C23: the end-of-stream sweep of detect_sections_and_augment closes every
\* section that is still open: a section keyed by an identifier gets
\* endIndex = the last index at which a record bearing the identifier was
\* read, an anonymous section endIndex = the index of the final record, and
\* no sectionEvent that a record already has is overwritten.
C23_Step ==
    (InAugment /\ pc = "loop" /\ pc' = "done") =>
        /\ open_by_id' = << >>
        /\ \A k \in 1..Len(open_by_id) :
             LET sid == open_by_id[k].sec
             IN  sections'[sid].end_index =
                   IF sections[sid].tf_req_id # None
                   THEN LastIndexOf(sections[sid].tf_req_id)
                   ELSE N - 1
        /\ \A i \in 1..N :
             entries[i].section_event # None
             => entries'[i].section_event = entries[i].section_event

C23_AugmentSweep == [][C23_Step]_vars

\* C24: the end-of-stream sweep of parse_log_file closes every section that
\* is still open with endIndex = the index of the final record, which is the
\* last index at which the section's identifier was seen; it leaves the
\* sectionEvent of the final record as it is and writes "end" only if the
\* record had none; no other record is touched.
C24_Step ==
    (InParse /\ pc = "loop" /\ pc' = "done") =>
        /\ open_by_id' = << >>
        /\ \A k \in 1..Len(open_by_id) :
             LET sid == open_by_id[k].sec
             IN  /\ sections'[sid].end_index = N - 1
                 /\ sections[sid].tf_req_id # None
                    => LastIndexOf(sections[sid].tf_req_id) = N - 1
        /\ \A i \in 1..N :
             entries'[i].section_event =
                IF i = N /\ open_by_id # << >>
                THEN PyOr(entries[i].section_event, "end")
                ELSE entries[i].section_event

C24_ParseSweep == [][C24_Step]_vars

C24_Witness ==
    /\ InParse
    /\ pc = "done"
    /\ TfIdsRead = << None, "a", "b" >>
    /\ \A i \in 1..N : Plain(entries[i].message)
    /\ Len(sections) = 2
    /\ sections[2].tf_req_id = "b"
    /\ sections[2].start_index = 2
    /\ sections[2].end_index = 2
    /\ entries[3].section_event = "start"

\* C25: in parse_log_file a record at index i without request identifier
\* whose message matches a start pattern opens a new anonymous section: the
\* table grows by one section with the next id, no requestId, the type of
\* the start classification, startIndex = i and entryCount = 1, and the
\* record is annotated with it and "start", or "end" if it closes it too.
C25_Step ==
    ( /\ InParse
      /\ ReadsRecord
      /\ ~Truthy(entries'[N + 1].tf_req_id)
      /\ MatchesStartPattern(entries'[N + 1].message) ) =>
        LET rec == entries'[N + 1]
            new == Len(sections) + 1
        IN  /\ Len(sections') = new
            /\ sections'[new].id = new
            /\ sections'[new].tf_req_id = None
            /\ sections'[new].type = _detect_section_start_type(rec.message)
            /\ sections'[new].start_index = N
            /\ sections'[new].start_ts = rec.timestamp
            /\ sections'[new].entries = 1
            /\ rec.section_id = new
            /\ rec.section_type = sections'[new].type
            /\ IF sections'[new].end_index = NoIdx
               THEN rec.section_event = "start" /\ IsOpenIn(open_by_id', new)
               ELSE /\ rec.section_event = "end"
                    /\ sections'[new].end_index = N
                    /\ _detect_section_end(rec.message) = sections'[new].type

C25_AnonymousStart == [][C25_Step]_vars

C25_Witness ==
    /\ InParse
    /\ pc = "loop"
    /\ TfIdsRead = << "a", None >>
    /\ entries[2].message = MsgPlanStart
    /\ Len(sections) = 2
    /\ sections[2].tf_req_id = None
    /\ sections[2].type = "plan"
    /\ sections[2].start_index = 1
    /\ sections[2].entries = 1
    /\ entries[2].section_id = 2
    /\ entries[2].section_event = "start"
    /\ IsOpenIn(open_by_id, 2)

\* C26: in parse_log_file a record at index i without request identifier
\* whose message matches an end pattern of type t (and no start pattern)
\* closes the most recently opened section of type t that is open when it
\* arrives, identifier-keyed or anonymous: the section gets endIndex = i and
\* the timestamp of the record, the record is annotated with it and "end",
\* open sections of the other type are left as they are; with no open
\* section of type t nothing is closed.
C26_Step ==
    ( /\ InParse
      /\ ReadsRecord
      /\ ~Truthy(entries'[N + 1].tf_req_id)
      /\ ~MatchesStartPattern(entries'[N + 1].message)
      /\ _detect_section_end(entries'[N + 1].message) # None ) =>
        LET rec == entries'[N + 1]
            t == _detect_section_end(rec.message)
            of_t == { k \in 1..Len(open_by_id) : sections[open_by_id[k].sec].type = t }
        IN  /\ of_t # { } =>
                 LET last == CHOOSE k \in of_t : \A j \in of_t : j <= k
                     sid == open_by_id[last].sec
                 IN  /\ sections'[sid].end_index = N
                     /\ sections'[sid].end_ts = rec.timestamp
                     /\ rec.section_id = sid
                     /\ rec.section_event = "end"
            /\ \A k \in 1..Len(open_by_id) :
                 k \notin of_t => sections'[open_by_id[k].sec] = sections[open_by_id[k].sec]
            /\ of_t = { } => sections' = sections

C26_EndWithoutId == [][C26_Step]_vars

\* C27: per request identifier the state only moves from no section to open
\* to closed.  In parse_log_file the section table never holds two sections
\* with the same non-null requestId.
C27_OneSectionPerRequestId ==
    InParse =>
        \A j, k \in 1..Len(sections) :
            (j # k /\ sections[j].tf_req_id # None)
            => sections[j].tf_req_id # sections[k].tf_req_id

\* C27, amended: a closed section is terminal.  In parse_log_file, after the
\* section of identifier X has been closed it is never open again; a later
\* record bearing X, with no section of X open, opens a new section of X
\* with the next id and is annotated with it.  The table can hold several
\* sections of X, and of these only the last can be open.
C27_Step ==
    InParse =>
        \A k \in 1..Len(sections) :
            (sections[k].tf_req_id # None /\ sections[k].end_index # NoIdx) =>
                /\ ~IsOpenIn(open_by_id', k)
                /\ sections'[k].end_index = sections[k].end_index
                /\ ( /\ ReadsRecord
                     /\ entries'[N + 1].tf_req_id = sections[k].tf_req_id
                     /\ ~HasKey(open_by_id, sections[k].tf_req_id) )
                   => /\ Len(sections') = Len(sections) + 1
                      /\ sections'[Len(sections')].tf_req_id = sections[k].tf_req_id
                      /\ entries'[N + 1].section_id = Len(sections')

C27_LastOnly ==
    InParse =>
        \A j, k \in 1..Len(sections) :
            ( /\ j < k
              /\ sections[j].tf_req_id # None
              /\ sections[j].tf_req_id = sections[k].tf_req_id )
            => sections[j].end_index # NoIdx

C27_ClosedIsTerminal == [][C27_Step]_vars /\ []C27_LastOnly

C27_Witness ==
    /\ InParse
    /\ pc = "loop"
    /\ TfIdsRead = << "a", "b", "a" >>
    /\ Len(sections) = 3
    /\ sections[1].tf_req_id = "a"
    /\ sections[1].end_index = 0
    /\ sections[3].tf_req_id = "a"
    /\ sections[3].end_index = NoIdx
    /\ entries[3].section_id = 3

\* The keys k of the payloads with k.lower() == "tf_req_id".
TfReqIdKeys == { "tf_req_id", "TF_REQ_ID", "tf_req_ID" }

\* The request identifier of the payload d: the non-empty value under the
\* exact key or, if d has only case variants of the key, the non-empty value
\* under one of them; None if there is none.
IdOfAnyCase(d) ==
    LET with_value == { k \in TfReqIdKeys \cap DOMAIN d : Truthy(d[k]) }
    IN  IF "tf_req_id" \in DOMAIN d
        THEN IF Truthy(d["tf_req_id"]) THEN d["tf_req_id"] ELSE None
        ELSE IF with_value # { } THEN d[CHOOSE k \in with_value : TRUE]
        ELSE None

\* C28: request-identifier detection in parse_log_file.  A record whose
\* payload has the key tf_req_id, or only a case variant of it, with a
\* non-empty value bears that identifier: it goes through the identifier
\* branch and belongs to a section of that identifier.
C28_DetectsIdOfAnyCase ==
    \A k \in 1..Len(entries) :
        IdOfAnyCase(payloads[k]) # None
        => /\ entries[k].section_id # NoSec
           /\ sections[entries[k].section_id].tf_req_id = IdOfAnyCase(payloads[k])

\* C29: default classification in parse_log_file.  A record that opens a
\* section for a new request identifier and whose message matches no start
\* pattern and no end pattern yields a section of type plan; the type of a
\* section is fixed at creation and no later record changes it, whatever
\* its message.
C29_Step ==
    InParse =>
        /\ \A k \in 1..Len(sections) :
               /\ k <= Len(sections')
               /\ sections'[k].type = sections[k].type
        /\ ( /\ ReadsRecord
             /\ entries'[N + 1].tf_req_id # None
             /\ ~HasKey(open_by_id, entries'[N + 1].tf_req_id)
             /\ Plain(entries'[N + 1].message) )
           => /\ Len(sections') = Len(sections) + 1
              /\ sections'[Len(sections')].tf_req_id = entries'[N + 1].tf_req_id
              /\ sections'[Len(sections')].start_index = N
              /\ sections'[Len(sections')].type = "plan"
              /\ entries'[N + 1].section_type = "plan"

C29_DefaultPlan == [][C29_Step]_vars

C29_Witness ==
    /\ InParse
    /\ pc = "loop"
    /\ TfIdsRead = << "a", "a" >>
    /\ entries[1].message = MsgUnrelated
    /\ entries[2].message = MsgApplyStart
    /\ Len(sections) = 1
    /\ sections[1].type = "plan"
    /\ sections[1].entries = 2
    /\ entries[2].section_id = 1
    /\ entries[2].section_type = "plan"

\* C30: section timestamps are those of the bounding records.  For every
\* section of parse_log_file, start_ts is the timestamp of the record at
\* start_index and, once the section is closed, end_ts is the timestamp of
\* the record at end_index.
C30_BoundingTimestamps ==
    InParse =>
        \A k \in 1..Len(sections) :
            /\ sections[k].start_index \in 0..(N - 1)
            /\ sections[k].start_ts = entries[sections[k].start_index + 1].timestamp
            /\ sections[k].end_index # NoIdx
               => /\ sections[k].end_index \in 0..(N - 1)
                  /\ sections[k].end_ts = entries[sections[k].end_index + 1].timestamp

C30_Witness ==
    /\ InParse
    /\ pc = "loop"
    /\ TfIdsRead = << "a", "a", "b" >>
    /\ sections[1].start_index = 0
    /\ sections[1].start_ts = entries[1].timestamp
    /\ sections[1].end_index = 1
    /\ sections[1].end_ts = entries[2].timestamp
    /\ entries[1].timestamp # entries[2].timestamp

---------------------------------------------------------------------------
(* parse_entry_from_dict on one payload, with any values under the         *)
(* timestamp keys.                                                         *)

\* What a payload can have under a timestamp key: an empty string, blanks,
\* two timestamps in different formats, a number.
ExtractValues == { "", RawBlank, RawComma, RawAlt, TfNumber }

ExtractMessages == { MsgUnrelated, MsgWithIsoTs }

TimestampKeySet == { TIMESTAMP_KEYS[i] : i \in 1..Len(TIMESTAMP_KEYS) }

\* The payloads: any subset of the timestamp keys, any values, a message
\* with or without a timestamp in its text.
ExtractPayloads ==
    { f @@ ("@message" :> m) :
        f \in UNION { [K -> ExtractValues] : K \in SUBSET TimestampKeySet },
        m \in ExtractMessages }

InitExtract ==
    /\ fn = "parse_entry_from_dict"
    /\ pc = "parse"
    /\ entries = << >>
    /\ sections = << >>
    /\ open_by_id = << >>
    /\ last_seen_index = [ id \in TfKeys |-> NoIdx ]
    /\ _last = None
    /\ call = 1
    /\ payloads \in { << d >> : d \in ExtractPayloads }
    /\ parsed_entries = << >>
    /\ current_section = None

\* The call parse_entry_from_dict(payloads[0]) in a new process.
ParseEntryFromDict ==
    /\ fn = "parse_entry_from_dict"
    /\ pc = "parse"
    /\ LET r == parse_entry_from_dict(payloads[1], _last)
       IN  /\ parsed_entries' = << r.entry >>
           /\ _last' = r.last
    /\ pc' = "done"
    /\ UNCHANGED << fn, call, payloads, entries, sections, open_by_id, last_seen_index,
                    current_section >>

NextExtract == ParseEntryFromDict

SpecExtract == InitExtract /\ [][NextExtract]_vars

Extracted == fn = "parse_entry_from_dict" /\ pc = "done"

\* The positions in TIMESTAMP_KEYS of the keys of d whose value is a
\* non-empty string.
NonEmptyAt(d) ==
    { i \in 1..Len(TIMESTAMP_KEYS) :
        /\ TIMESTAMP_KEYS[i] \in DOMAIN d
        /\ IsStr(d[TIMESTAMP_KEYS[i]])
        /\ d[TIMESTAMP_KEYS[i]] # "" }

\* Those whose value is a string with something other than white space.
NonBlankAt(d) == { i \in NonEmptyAt(d) : d[TIMESTAMP_KEYS[i]] # RawBlank }

\* The value under the first key of d among those at the positions at, else
\* what the text of the message holds.
KeyBeforeMessage(d, at) ==
    IF at # { }
    THEN d[TIMESTAMP_KEYS[CHOOSE i \in at : \A j \in at : i <= j]]
    ELSE _find_ts_in_text(d["@message"])

\* C31: timestamp extraction precedence in parse_entry_from_dict.  The raw
\* timestamp is the value of the first key in the order @timestamp,
\* timestamp, time, ts, date whose value is a non-empty string; the message
\* is searched only when no key yields one.
C31_FirstNonEmptyKey ==
    Extracted =>
        parsed_entries[1].timestamp =
            _normalize_timestamp(KeyBeforeMessage(payloads[1], NonEmptyAt(payloads[1])),
                                 None).ts

\* C31, amended: the raw timestamp is the value of the first key in that
\* order whose value is a string that is not empty after stripping white
\* space; the message is searched only when no key has such a value, so a
\* key with such a value always wins over a timestamp in the message.
C31_FirstNonBlankKey ==
    Extracted =>
        parsed_entries[1].timestamp =
            _normalize_timestamp(KeyBeforeMessage(payloads[1], NonBlankAt(payloads[1])),
                                 None).ts

C31_Witness ==
    /\ Extracted
    /\ payloads[1] = ("@timestamp" :> RawBlank) @@ ("timestamp" :> RawComma)
                     @@ ("ts" :> TfNumber) @@ ("date" :> RawAlt)
                     @@ ("@message" :> MsgWithIsoTs)
    /\ parsed_entries[1].timestamp = "2024-01-01T10:00:01.500000"

---------------------------------------------------------------------------
(* _normalize_level.  The levels are concrete strings; what LEVEL_RE and   *)
(* the string methods make of each is tabulated.                           *)

\* The strings _normalize_level is given.
LevelStrings ==
    { "trace", "debug", "info", "warn", "warning", "error", "critical",
      "TRACE", "DEBUG", "INFO", "WARN", "WARNING", "ERROR", "CRITICAL",
      "Trace", "Debug", "Info", "Warn", "Warning", "Error", "Critical",
      " info ", "level=error", "warn: disk", "error info", "[DEBUG]",
      "notice", " notice ", "NOTICE", "fatal", "Fatal", "informational",
      "warnings", "err", "verbose", "", "   " }

\* m = LEVEL_RE.search(level): m.group(1), the first severity word that
\* stands between word boundaries, as it is written in level; None if
\* there is none.
LEVEL_RE_search(level) ==
    CASE level \in { "trace" } -> "trace"
      [] level \in { "debug" } -> "debug"
      [] level \in { "info", " info " } -> "info"
      [] level \in { "warn", "warn: disk" } -> "warn"
      [] level \in { "warning" } -> "warning"
      [] level \in { "error", "level=error", "error info" } -> "error"
      [] level \in { "critical" } -> "critical"
      [] level \in { "TRACE" } -> "TRACE"
      [] level \in { "DEBUG", "[DEBUG]" } -> "DEBUG"
      [] level \in { "INFO" } -> "INFO"
      [] level \in { "WARN" } -> "WARN"
      [] level \in { "WARNING" } -> "WARNING"
      [] level \in { "ERROR" } -> "ERROR"
      [] level \in { "CRITICAL" } -> "CRITICAL"
      [] level \in { "Trace" } -> "Trace"
      [] level \in { "Debug" } -> "Debug"
      [] level \in { "Info" } -> "Info"
      [] level \in { "Warn" } -> "Warn"
      [] level \in { "Warning" } -> "Warning"
      [] level \in { "Error" } -> "Error"
      [] level \in { "Critical" } -> "Critical"
      [] OTHER -> None

\* s.strip()
StrStrip(s) ==
    CASE s = " info " -> "info"
      [] s = " notice " -> "notice"
      [] s = "   " -> ""
      [] OTHER -> s

\* s.upper()
StrUpper(s) ==
    CASE s \in { "trace", "Trace" } -> "TRACE"
      [] s \in { "debug", "Debug" } -> "DEBUG"
      [] s \in { "info", "Info" } -> "INFO"
      [] s \in { "warn", "Warn" } -> "WARN"
      [] s \in { "warning", "Warning" } -> "WARNING"
      [] s \in { "error", "Error" } -> "ERROR"
      [] s \in { "critical", "Critical" } -> "CRITICAL"
      [] s \in { "notice" } -> "NOTICE"
      [] s \in { "fatal", "Fatal" } -> "FATAL"
      [] s \in { "informational" } -> "INFORMATIONAL"
      [] s \in { "warnings" } -> "WARNINGS"
      [] s \in { "err" } -> "ERR"
      [] s \in { "verbose" } -> "VERBOSE"
      [] OTHER -> s

\* _normalize_level(level).  level is None or a string wherever the function
\* is called: _extract_from_dict and _find_level_in_text give nothing else.
_normalize_level(level) ==
    IF ~Truthy(level) THEN None
    ELSE IF LEVEL_RE_search(level) # None THEN StrUpper(LEVEL_RE_search(level))
    ELSE StrUpper(StrStrip(level))

InitLevel ==
    /\ fn = "_normalize_level"
    /\ pc = "parse"
    /\ entries = << >>
    /\ sections = << >>
    /\ open_by_id = << >>
    /\ last_seen_index = [ id \in TfKeys |-> NoIdx ]
    /\ _last = None
    /\ call = 1
    /\ payloads \in { << level >> : level \in LevelStrings \cup { None } }
    /\ parsed_entries = << >>
    /\ current_section = None

\* _normalize_level(level) for the level that was given.
NormalizeLevel ==
    /\ fn = "_normalize_level"
    /\ pc = "parse"
    /\ parsed_entries' = << _normalize_level(payloads[1]) >>
    /\ pc' = "once"
    /\ UNCHANGED << fn, call, payloads, _last, entries, sections, open_by_id,
                    last_seen_index, current_section >>

\* _normalize_level of what the first call returned.
NormalizeLevelAgain ==
    /\ fn = "_normalize_level"
    /\ pc = "once"
    /\ parsed_entries' = Append(parsed_entries, _normalize_level(parsed_entries[1]))
    /\ pc' = "done"
    /\ UNCHANGED << fn, call, payloads, _last, entries, sections, open_by_id,
                    last_seen_index, current_section >>

NextLevel == NormalizeLevel \/ NormalizeLevelAgain

SpecLevel == InitLevel /\ [][NextLevel]_vars

\* The severity tokens a level can be.
CanonicalLevels == { "TRACE", "DEBUG", "INFO", "WARN", "ERROR", "CRITICAL" }

\* C32: level canonicalization in _normalize_level.  A recognized severity
\* token is matched whatever its case and returned uppercased, and the
\* result is then one of TRACE, DEBUG, INFO, WARN, ERROR, CRITICAL; an
\* unrecognized non-empty string is returned stripped and uppercased; empty
\* or missing input gives None; normalizing a normalized level returns it
\* unchanged.
C32_LevelCanonical ==
    (fn = "_normalize_level" /\ pc \in { "once", "done" }) =>
        LET level  == payloads[1]
            result == parsed_entries[1]
        IN  /\ level \in { None, "" } => result = None
            /\ (level \notin { None, "" } /\ LEVEL_RE_search(level) # None)
               => /\ result = StrUpper(LEVEL_RE_search(level))
                  /\ result \in CanonicalLevels
            /\ (level \notin { None, "" } /\ LEVEL_RE_search(level) = None)
               => result = StrUpper(StrStrip(level))
            /\ pc = "done" => parsed_entries[2] = result

\* C33: in parse_log_file at most one section is open after each record has
\* been processed, identifier-keyed or anonymous; sections of two different
\* request identifiers are never open at the same time.
C33_AtMostOneOpen ==
    InParse =>
        /\ Len(open_by_id) <= 1
        /\ Cardinality({ k \in 1..Len(sections) : sections[k].end_index = NoIdx }) <= 1

\* A record of another identifier has closed the open section and opened
\* its own, after an anonymous section was closed in the same way.
C33_Witness ==
    /\ InParse
    /\ pc = "loop"
    /\ TfIdsRead = << None, "a", "b" >>
    /\ Len(sections) = 3
    /\ sections[1].end_index = 0
    /\ sections[2].end_index = 1
    /\ sections[3].end_index = NoIdx
    /\ Len(open_by_id) = 1
    /\ open_by_id[1].key = "b"

\* C34: the sections of parse_log_file are pairwise disjoint and ordered.
\* For sections with consecutive ids k and k + 1 the start_index of k + 1 is
\* greater than the end_index of k, so no record index lies between the
\* bounds of two sections.
C34_DisjointOrdered ==
    InParse =>
        /\ \A k \in 1..(Len(sections) - 1) :
               /\ sections[k].end_index # NoIdx
               /\ sections[k + 1].start_index > sections[k].end_index
        /\ \A i \in 0..(N - 1) :
               Cardinality({ k \in 1..Len(sections) :
                               /\ sections[k].start_index <= i
                               /\ sections[k].end_index # NoIdx
                               /\ i <= sections[k].end_index }) <= 1

\* Three sections side by side: one closed by its end pattern, one of two
\* records closed by the next identifier, one closed by the sweep.
C34_Witness ==
    /\ InParse
    /\ pc = "done"
    /\ N = 4
    /\ Len(sections) = 3
    /\ sections[1].start_index = 0 /\ sections[1].end_index = 0
    /\ MatchesEndPattern(entries[1].message)
    /\ sections[2].start_index = 1 /\ sections[2].end_index = 2
    /\ sections[3].start_index = 3 /\ sections[3].end_index = 3

\* C35: for every closed section of parse_log_file, entries is
\* end_index - start_index + 1: each record between the bounds of the
\* section was counted once, and no other record was counted.
C35_CountIsSpan ==
    InParse =>
        \A k \in 1..Len(sections) :
            sections[k].end_index # NoIdx
            => sections[k].entries = sections[k].end_index - sections[k].start_index + 1

\* A section of three records closed by the next identifier, and a section
\* of one record closed by the sweep.
C35_Witness ==
    /\ InParse
    /\ pc = "done"
    /\ TfIdsRead = << "a", "a", "a", "b" >>
    /\ Len(sections) = 2
    /\ sections[1].start_index = 0
    /\ sections[1].end_index = 2
    /\ sections[1].entries = 3
    /\ sections[2].entries = 1

\* The record at index i lies between the bounds of section k.
Within(i, k) ==
    /\ sections[k].start_index <= i
    /\ i <= sections[k].end_index

\* C36: annotation consistency in parse_log_file.  After the whole stream is
\* processed, every record that carries a section_id s has an index between
\* start_index and end_index of section s and the section_type of that
\* section, and every record whose index lies between the bounds of a
\* section carries the id of that section.
C36_AnnotationConsistent ==
    (InParse /\ pc = "done") =>
        /\ \A i \in 0..(N - 1) :
               entries[i + 1].section_id # NoSec
               => /\ entries[i + 1].section_id \in 1..Len(sections)
                  /\ Within(i, entries[i + 1].section_id)
                  /\ entries[i + 1].section_type
                       = sections[entries[i + 1].section_id].type
        /\ \A i \in 0..(N - 1), k \in 1..Len(sections) :
               Within(i, k) => entries[i + 1].section_id = sections[k].id

\* Two sections and a record between them that belongs to none.
C36_Witness ==
    /\ InParse
    /\ pc = "done"
    /\ TfIdsRead = << "a", "a", None, "b" >>
    /\ Len(sections) = 2
    /\ entries[1].section_id = 1
    /\ entries[2].section_id = 1
    /\ entries[3].section_id = NoSec
    /\ entries[4].section_id = 2
    /\ sections[1].type # sections[2].type

\* C37: in the final output of parse_log_file the record at the end_index of
\* a section carries the section_event "end" if and only if the section was
\* closed before the end-of-stream sweep; a section closed by the sweep
\* leaves its last record with the "start" or "inside" it had.
C37_Step ==
    InParse =>
        /\ \A k \in 1..Len(sections) :
               (pc = "loop" /\ sections[k].end_index # NoIdx)
               => entries[sections[k].end_index + 1].section_event = "end"
        /\ (pc = "loop" /\ pc' = "done") =>
               /\ \A i \in 1..N :
                      entries'[i].section_event = entries[i].section_event
               /\ \A k \in 1..Len(sections) :
                      sections[k].end_index = NoIdx
                      => /\ sections'[k].end_index = N - 1
                         /\ entries[N].section_id = k
                         /\ entries[N].section_event \in { "start", "inside" }

C37_EndEventIffClosedBeforeSweep == [][C37_Step]_vars

\* One section closed by the next identifier, one by the sweep.
C37_Witness ==
    /\ InParse
    /\ pc = "done"
    /\ TfIdsRead = << "a", "b", "b" >>
    /\ \A i \in 1..N : Plain(entries[i].message)
    /\ sections[1].end_index = 0
    /\ entries[1].section_event = "end"
    /\ sections[2].end_index = 2
    /\ entries[3].section_event = "inside"

---------------------------------------------------------------------------
(* process_logs of src/prod/func.py: the labeller of the web front end.    *)
(* It walks the list of payloads once, keeps the section of the last       *)
(* "CLI args" message in current_section and writes section and @id on     *)
(* each payload.  The substring tests are tabulated for the messages.      *)

\* Longest list of payloads process_logs is given.
MaxLogs == 3

MsgCliInit  == "CLI args: terraform init"
MsgLowerCli == "cli args: terraform plan"

\* "CLI args" in message
CliArgsInMessage(message) ==
    message \in { MsgPlanStart, MsgApplyStart, MsgBothStart, MsgCliInit }

\* "plan" in message
PlanInMessage(message) ==
    message \in { MsgPlanStart, MsgPlanStartEnd, MsgBothStart, MsgBothWords,
                  MsgLowerCli }

\* "apply" in message
ApplyInMessage(message) ==
    message \in { MsgApplyStart, MsgApplyStartEnd, MsgBothStart,
                  MsgBothWords }

\* The payloads: the messages, a payload without @message, one whose
\* @message is a number, one that has the keys section and @id already.
LabelPayloads ==
    { ("@message" :> m) :
        m \in { MsgUnrelated, MsgPlanStart, MsgApplyStart, MsgBothStart,
                MsgCliInit, MsgLowerCli, MsgBothWords } }
    \cup { ("@level" :> "info"),
           ("@message" :> TfNumber),
           ("@message" :> MsgUnrelated) @@ ("section" :> "apply") @@ ("@id" :> "9") }

\* log_entry.get("@message", "")
MessageOf(log_entry) ==
    IF "@message" \in DOMAIN log_entry THEN log_entry["@message"] ELSE ""

\* The block "if 'CLI args' in message" with apply tested before plan.
SectionAfter_ApplyFirst(message, current) ==
    IF CliArgsInMessage(message)
    THEN IF ApplyInMessage(message) THEN "apply"
         ELSE IF PlanInMessage(message) THEN "plan"
         ELSE None
    ELSE current

\* The block "if 'CLI args' in message": current_section after it.
SectionAfter(message, current) ==
    IF CliArgsInMessage(message)
    THEN IF PlanInMessage(message) THEN "plan"
         ELSE IF ApplyInMessage(message) THEN "apply"
         ELSE None
    ELSE current

InitLabel ==
    /\ fn = "process_logs"
    /\ pc = "loop"
    /\ entries = << >>
    /\ sections = << >>
    /\ open_by_id = << >>
    /\ last_seen_index = [ id \in TfKeys |-> NoIdx ]
    /\ _last = None
    /\ call = 1
    /\ payloads \in UNION { [ 1..n -> LabelPayloads ] : n \in 0..MaxLogs }
    /\ parsed_entries = << >>
    /\ current_section = None

\* One iteration of "for idx, log_entry in enumerate(logs, start=1)".  The
\* payload is changed in place and appended to logs_with_sections, which the
\* model keeps in parsed_entries.  "CLI args" in message raises TypeError
\* when message is a number.
ProcessLog ==
    /\ fn = "process_logs"
    /\ pc = "loop"
    /\ Len(parsed_entries) < Len(payloads)
    /\ LET idx == Len(parsed_entries) + 1
           log_entry == payloads[idx]
           message == MessageOf(log_entry)
           section == SectionAfter(message, current_section)
           labelled == ("section" :> section) @@ ("@id" :> ToString(idx)) @@ log_entry
       IN  IF ~IsStr(message)
           THEN /\ pc' = "raised"
                /\ UNCHANGED << payloads, parsed_entries, current_section >>
           ELSE /\ current_section' = section
                /\ payloads' = [ payloads EXCEPT ![idx] = labelled ]
                /\ parsed_entries' = Append(parsed_entries, labelled)
                /\ pc' = pc
    /\ UNCHANGED << fn, call, _last, entries, sections, open_by_id, last_seen_index >>

\* return logs_with_sections
ProcessLogsReturn ==
    /\ fn = "process_logs"
    /\ pc = "loop"
    /\ Len(parsed_entries) = Len(payloads)
    /\ pc' = "done"
    /\ UNCHANGED << fn, call, _last, entries, sections, open_by_id, last_seen_index,
                    payloads, parsed_entries, current_section >>

NextLabel == ProcessLog \/ ProcessLogsReturn

SpecLabel == InitLabel /\ [][NextLabel]_vars

\* The records before or at k (from 1) whose @message contains "CLI args".
CliArgsUpTo(k) == { j \in 1..k : CliArgsInMessage(MessageOf(payloads[j])) }

\* plan if the message contains "plan", else apply if it contains "apply",
\* else none.
ClassOf(message) ==
    IF PlanInMessage(message) THEN "plan"
    ELSE IF ApplyInMessage(message) THEN "apply"
    ELSE None

\* C38: in process_logs the section of each record is the classification of
\* the most recent record at or before it whose @message contains
\* "CLI args", and none before the first such record; the records are
\* numbered @id = 1, 2, 3, ... in input order and none is dropped.
C38_Labelled ==
    fn = "process_logs" =>
        /\ \A k \in 1..Len(parsed_entries) :
               /\ parsed_entries[k]["@id"] = ToString(k)
               /\ parsed_entries[k]["section"] =
                      IF CliArgsUpTo(k) = { } THEN None
                      ELSE ClassOf(MessageOf(payloads[
                             CHOOSE j \in CliArgsUpTo(k) : \A i \in CliArgsUpTo(k) : i <= j]))
               /\ DOMAIN parsed_entries[k] = DOMAIN payloads[k]
               /\ \A key \in DOMAIN payloads[k] :
                      parsed_entries[k][key] = payloads[k][key]
        /\ pc = "done" => Len(parsed_entries) = Len(payloads)

C38_Step ==
    (fn = "process_logs" /\ Len(parsed_entries') = Len(parsed_entries) + 1) =>
        /\ \A k \in 1..Len(parsed_entries) : parsed_entries'[k] = parsed_entries[k]
        /\ \A key \in DOMAIN payloads[Len(parsed_entries')] \ { "section", "@id" } :
               parsed_entries'[Len(parsed_entries')][key]
                 = payloads[Len(parsed_entries')][key]

C38_ProcessLogs == [][C38_Step]_vars /\ []C38_Labelled

\* The label changes twice: plan from a message with both words, then none
\* from a "CLI args" message with neither; a record without @message
\* between them keeps plan.
C38_Witness ==
    /\ fn = "process_logs"
    /\ pc = "done"
    /\ Len(parsed_entries) = 3
    /\ MessageOf(payloads[1]) = MsgBothStart
    /\ "@message" \notin DOMAIN payloads[2]
    /\ MessageOf(payloads[3]) = MsgCliInit
    /\ parsed_entries[1]["section"] = "plan"
    /\ parsed_entries[2]["section"] = "plan"
    /\ parsed_entries[3]["section"] = None
    /\ parsed_entries[3]["@id"] = "3"

====
